---- MODULE Spec2Model ----
(***************************************************************************)
(* Flood-map pipeline of src/Flood_Map: the four stage scripts             *)
(* A1_Preprocess_DEM, A2_Streams_Watersheds, B1_HAND and B2_FloodMasks.    *)
(*                                                                         *)
(* Spec       the stage runs over a shared project home and workspace:     *)
(*            path allocation, engine calls, raster saves, manifests.      *)
(* SpecSave   _save_raster, statement by statement (the polling loop).     *)
(* SpecRunoff _runoff_depth_from_rainfall over exact rationals.            *)
(* SpecMasks  the masks and the zonal stage-height solver of B2, cell by    *)
(*            cell over small rasters.                                     *)
(* SpecChannels the channel classes of A2 and their combination, cell by   *)
(*            cell.                                                        *)
(*                                                                         *)
(* Environment: the Terrain Analysis Engine and the file system are        *)
(* external. An engine call either raises or returns; a write either lands *)
(* or is lost (a locked or slow store); a write to a path that exists      *)
(* raises unless arcpy.env.overwriteOutput is set.  The wall clock does    *)
(* not run backwards.  Stage runs are sequential (spec section 5).         *)
(***************************************************************************)
EXTENDS Integers, Sequences, FiniteSets, TLC

VARIABLES
    now,        \* wall clock, in seconds
    nruns,      \* stage runs started so far
    faults,     \* environment faults injected so far
    dem,        \* the DEM's grid dimensions (width, height)
    fs,         \* the stores: path -> number of times the dataset was written
    verified,   \* [backoff, once]: paths that passed an existence check
    manifests,  \* the project home: manifest file name -> its JSON content
    manRev,     \* manifest file name -> number of times the file was written
    lastOk,     \* stage -> the manifest of the stage's latest successful run
    env,        \* arcpy.env, the ambient geoprocessing environment
    run,        \* the stage run in progress, or the last one that ended
    sv,         \* SpecSave: one call of _save_raster
    rq,         \* SpecRunoff: one call of _runoff_depth_from_rainfall
    zs,         \* SpecMasks: one B2 run over rasters given cell by cell
    ac          \* SpecChannels: the channel classes of one A2 run, cell by cell

vars == <<now, nruns, faults, dem, fs, verified, manifests, manRev, lastOk, env, run, sv, rq, zs, ac>>

pipeVars == <<now, nruns, faults, dem, fs, verified, manifests, manRev, lastOk, env, run>>

-----------------------------------------------------------------------------
(* Bounds of the model *)

MaxRuns == 4

MaxFaults == 1

-----------------------------------------------------------------------------
(* Configuration (BIGDATA) *)

SIZE_THRESHOLD_CELLS == 100000000

USE_CRF_IF_BIG == TRUE

BACKOFF_TRIES == 6

\* BACKOFF_BASE_SEC = 0.7, in tenths of a second
BACKOFF_BASE_TENTHS == 7

\* the growth factor 1.7 of the waits, in tenths
BACKOFF_FACTOR_TENTHS == 17

PYRAMIDS_OR_STATS == TRUE

-----------------------------------------------------------------------------
(* Values *)

Stages == {"A1", "A2", "B1", "B2"}

NoMan == <<"none", <<>>>>

\* a grid just under and a grid exactly at SIZE_THRESHOLD_CELLS
DemChoices == {[w |-> 9999, h |-> 10000], [w |-> 10000, h |-> 10000]}

Prereq(stage) ==
    CASE stage = "A2" -> "A1"
      [] stage = "B1" -> "A2"
      [] stage = "B2" -> "B1"
      [] OTHER -> "none"

EmptyFn == [k \in {} |-> 0]

Range(f) == {f[k] : k \in DOMAIN f}

\* datetime.now().strftime("%Y%m%d_%H%M%S"): zero-padded, fixed width
Strftime(t) == <<(t \div 10) % 10, t % 10>>

\* str.__lt__ on two strings of digits
RECURSIVE LexLess(_, _)
LexLess(a, b) ==
    IF a = <<>> THEN b # <<>>
    ELSE IF b = <<>> THEN FALSE
    ELSE IF Head(a) # Head(b) THEN Head(a) < Head(b)
    ELSE LexLess(Tail(a), Tail(b))

ManifestName(stage, ts) == <<stage, ts>>

\* DiscoverLatest with the candidates sorted ascending
DiscoverEarliest(stage, files) ==
    LET cands == {m \in DOMAIN files : m[1] = stage}
    IN  IF cands = {} THEN NoMan
        ELSE CHOOSE m \in cands : \A o \in cands : o = m \/ LexLess(m[2], o[2])

\* the candidates of os.listdir(home) with the stage's prefix, sorted in
\* reverse, first one taken; NoMan when there is none
DiscoverLatest(stage, files) ==
    LET cands == {m \in DOMAIN files : m[1] = stage}
    IN  IF cands = {} THEN NoMan
        ELSE CHOOSE m \in cands : \A o \in cands : o = m \/ LexLess(o[2], m[2])

-----------------------------------------------------------------------------
(* Raster Store: paths *)

GdbPath(base, n) == <<"gdb", base, n>>

CrfPath(base) == <<"crf", base, 0>>

Exists(store, p) == p \in DOMAIN store

\* arcpy.CreateUniqueName(base, ws): base itself, or base with the first
\* numeric suffix that names no existing dataset (n = 0 is the bare name)
CreateUniqueName(base, store) ==
    LET free(n) == ~Exists(store, GdbPath(base, n))
        n == CHOOSE k \in 0..Cardinality(DOMAIN store) :
                 free(k) /\ \A j \in 0..(k - 1) : ~free(j)
    IN  GdbPath(base, n)

\* IsBig with a strict comparison
IsBigStrict(ras) == ras.w * ras.h > SIZE_THRESHOLD_CELLS

IsBig(ras) == ras.w * ras.h >= SIZE_THRESHOLD_CELLS

OutPath(base, store, prefer_crf) ==
    IF prefer_crf /\ USE_CRF_IF_BIG THEN CrfPath(base)
    ELSE CreateUniqueName(base, store)

\* a dataset is written: created, or replaced where it exists
WriteDataset(store, p) ==
    IF p \in DOMAIN store THEN [store EXCEPT ![p] = @ + 1]
    ELSE store @@ (p :> 1)

\* the engine refuses to replace a dataset unless overwriteOutput is set
EngineMayWrite(store, e, p) == ~Exists(store, p) \/ e.overwriteOutput

-----------------------------------------------------------------------------
(* Raster Store: the polling of _save_raster and _verify_exists.            *)
(* d is the number of existence checks that fail before the path shows.    *)

\* the waits slept by `for i in range(BACKOFF_TRIES)`, from iteration i on
RECURSIVE PollWaits(_, _)
PollWaits(i, d) ==
    IF i >= BACKOFF_TRIES THEN 0
    ELSE IF d <= i THEN 0
    ELSE 1 + PollWaits(i + 1, d)

\* the test after the loop: `if not arcpy.Exists(out_path): raise`
SaveFound(d) == d <= PollWaits(0, d)

\* _verify_exists returns True from inside the loop only
VerifyFound(d) == d < BACKOFF_TRIES

Delays == 0..(BACKOFF_TRIES + 1)

-----------------------------------------------------------------------------
(* arcpy.env and _scoped_env *)

AmbientEnv ==
    [outputCoordinateSystem |-> "ambient", snapRaster |-> "ambient",
     extent |-> "ambient", cellSize |-> "ambient", mask |-> "ambient",
     workspace |-> "ambient", scratchWorkspace |-> "ambient",
     overwriteOutput |-> TRUE, parallelProcessingFactor |-> "ambient"]

\* SavedKeys of A2, B1 and B2 taken for A1 too
SavedKeysCommon(stage) ==
    {"outputCoordinateSystem", "snapRaster", "extent", "cellSize", "mask",
     "workspace", "scratchWorkspace", "overwriteOutput"}

\* the keys of `saved` in the stage's _scoped_env
SavedKeys(stage) ==
    {"outputCoordinateSystem", "snapRaster", "extent", "cellSize", "mask",
     "workspace", "scratchWorkspace", "overwriteOutput"}
    \cup (IF stage = "A1" THEN {"parallelProcessingFactor"} ELSE {})

\* ScopedKwargs with overwriteOutput=True
ScopedKwargsOverwrite(stage) ==
    LET ref == IF stage = "A1" THEN "dem" ELSE "input"
        common == [workspace |-> "ws", scratchWorkspace |-> "ws",
                   overwriteOutput |-> TRUE, outputCoordinateSystem |-> ref,
                   snapRaster |-> ref, extent |-> ref, cellSize |-> ref,
                   mask |-> "None"]
    IN  IF stage = "A1" THEN common @@ [parallelProcessingFactor |-> "75%"]
        ELSE common

\* the keyword arguments of the stage's `with _scoped_env(...)`
ScopedKwargs(stage) ==
    LET ref == IF stage = "A1" THEN "dem" ELSE "input"
        common == [workspace |-> "ws", scratchWorkspace |-> "ws",
                   overwriteOutput |-> FALSE, outputCoordinateSystem |-> ref,
                   snapRaster |-> ref, extent |-> ref, cellSize |-> ref,
                   mask |-> "None"]
    IN  IF stage = "A1" THEN common @@ [parallelProcessingFactor |-> "75%"]
        ELSE common

EnvSave(e, stage) == [k \in SavedKeys(stage) |-> e[k]]

EnvApply(e, kw) == [k \in DOMAIN e |-> IF k \in DOMAIN kw THEN kw[k] ELSE e[k]]

EnvEnter(e, stage) == EnvApply(e, ScopedKwargs(stage))

EnvRestore(e, saved) == EnvApply(e, saved)

-----------------------------------------------------------------------------
(* The stages' bodies: the statements inside `with _scoped_env(...)`.       *)
(* op:    save     an engine expression handed to _save_raster              *)
(*        tool     a geoprocessing tool that writes its own output          *)
(*        rawsave  Raster.save with no existence check                      *)
(*        verify   _verify_exists                                           *)
(*        prop     a raster property read                                   *)
(*        flowdist _gp_flow_distance_paths                                  *)
(*        check    a single arcpy.Exists                                    *)
(*        pyramids BuildPyramidsAndStatistics                               *)
(* alloc: the step allocates its path itself (CreateUniqueName)             *)
(* reads: datasets of this run the step reads                               *)

St(op, key, alloc, reads) == [op |-> op, key |-> key, alloc |-> alloc, reads |-> reads]

ProgA1 ==
    << St("save", "fill", FALSE, {}),
       St("tool", "drop", FALSE, {"fill"}),
       St("save", "flowdir", FALSE, {}),
       St("verify", "drop", FALSE, {}),
       St("save", "flowacc", FALSE, {"flowdir"}),
       St("prop", "cell_area_m2", FALSE, {}) >>

ProgA2 ==
    << St("save", "micro", FALSE, {}),
       St("save", "main", FALSE, {}),
       St("save", "drop_clean", FALSE, {}),
       St("save", "drop_clean_nonull", FALSE, {"drop_clean"}),
       St("save", "slope_cont", FALSE, {"drop_clean_nonull"}),
       St("save", "combine", FALSE, {"main", "micro", "slope_cont"}),
       St("save", "streamlink", FALSE, {"combine"}),
       St("save", "streamorder", FALSE, {"streamlink"}),
       St("tool", "streams_fc", FALSE, {"streamlink"}),
       St("save", "watershed_ras", FALSE, {"streamlink"}),
       St("tool", "zonal_tbl_streams", FALSE, {"watershed_ras", "combine"}),
       St("tool", "zonal_tbl_slope", FALSE, {"watershed_ras", "slope_cont"}),
       St("tool", "watershed_fc", FALSE, {"watershed_ras"}) >>

ProgB1 ==
    << St("rawsave", "hand_sources", TRUE, {}),
       St("flowdist", "hand", FALSE, {"hand_sources"}),
       St("check", "hand", FALSE, {}),
       St("pyramids", "hand", FALSE, {}) >>

ProgB2 ==
    << St("save", "Flood01cm", TRUE, {}),
       St("save", "Flood05cm", TRUE, {}),
       St("save", "Flood10cm", TRUE, {}),
       St("tool", "Flood10cm_fc", TRUE, {"Flood10cm"}),
       St("rawsave", "Hthresh_01cmRain", TRUE, {}),
       St("save", "Flood01cmRain", TRUE, {"Hthresh_01cmRain"}),
       St("rawsave", "Hthresh_05cmRain", TRUE, {}),
       St("save", "Flood05cmRain", TRUE, {"Hthresh_05cmRain"}),
       St("rawsave", "Hthresh_10cmRain", TRUE, {}),
       St("save", "Flood10cmRain", TRUE, {"Hthresh_10cmRain"}),
       St("tool", "Flood10cmRain_fc", TRUE, {"Flood10cmRain"}) >>

Prog(stage) ==
    CASE stage = "A1" -> ProgA1
      [] stage = "A2" -> ProgA2
      [] stage = "B1" -> ProgB1
      [] stage = "B2" -> ProgB2
      [] OTHER -> <<>>

\* the position of the manifest block: after the last statement of the body
ManifestPc(stage) == Len(Prog(stage)) + 1

\* the names handed to CreateUniqueName / _out_path before the body starts
UpfrontKeys(stage) ==
    CASE stage = "A1" -> {"fill", "flowdir", "drop", "flowacc"}
      [] stage = "A2" -> {"micro", "main", "drop_clean", "drop_clean_nonull",
                          "slope_cont", "combine", "streamlink", "streamorder",
                          "streams_fc", "watershed_ras", "watershed_fc",
                          "zonal_tbl_streams", "zonal_tbl_slope"}
      [] stage = "B1" -> {"hand"}
      [] OTHER -> {}

\* the keys that go through _out_path (CRF-aware); the rest go through
\* arcpy.CreateUniqueName directly
OutPathKeys(stage) ==
    CASE stage = "A1" -> {"fill", "flowdir", "drop", "flowacc"}
      [] stage = "B1" -> {"hand"}
      [] OTHER -> {}

\* the "outputs" object of the stage's manifest that holds paths of this run
ManifestKeys(stage) ==
    CASE stage = "A1" -> {"fill", "flowdir", "drop", "flowacc"}
      [] stage = "A2" -> {"micro", "main", "drop_clean", "drop_clean_nonull",
                          "slope_cont", "combine", "streamlink", "streamorder",
                          "streams_fc", "watershed_ras", "watershed_fc"}
      [] stage = "B1" -> {"hand"}
      [] stage = "B2" -> {"Flood01cm", "Flood05cm", "Flood10cm", "Flood10cm_fc",
                          "Flood01cmRain", "Flood05cmRain", "Flood10cmRain",
                          "Flood10cmRain_fc"}
      [] OTHER -> {}

\* the feature classes among the manifest keys
FeatureKeys == {"streams_fc", "watershed_fc", "Flood10cm_fc", "Flood10cmRain_fc"}

\* the dataset name the code gives each key
BaseName(key) ==
    CASE key = "fill" -> "Fill_DEM_10cm"
      [] key = "flowdir" -> "FlowDir_DEM_10cm"
      [] key = "drop" -> "Drop_FlowDir_DEM_10cm"
      [] key = "flowacc" -> "FlowAcc_DEM_10cm"
      [] key = "micro" -> "Micro_drainage"
      [] key = "main" -> "Main_channels"
      [] key = "drop_clean" -> "DropClean_DEM_10cm"
      [] key = "drop_clean_nonull" -> "DropClean_NoNull"
      [] key = "slope_cont" -> "Slope_contingent_semi_urban"
      [] key = "combine" -> "Combine_streamCalcs"
      [] key = "streamlink" -> "StreamLink"
      [] key = "streamorder" -> "StreamOrder"
      [] key = "streams_fc" -> "StreamBinary_fc"
      [] key = "watershed_ras" -> "Watershed"
      [] key = "watershed_fc" -> "Watershed_fc"
      [] key = "zonal_tbl_streams" -> "ZonalStats_Watershed_streams"
      [] key = "zonal_tbl_slope" -> "ZonalStats_Watershed_slope"
      [] key = "hand" -> "HAND50cm"
      [] key = "hand_sources" -> "HAND_sources"
      [] OTHER -> key

-----------------------------------------------------------------------------
(* A stage run *)

NoFd ==
    [surface |-> NoMan, flowdir |-> NoMan, source |-> NoMan, stats |-> <<>>,
     raised |-> <<>>]

IdleRun ==
    [stage |-> "none", status |-> "none", pc |-> 0, ts |-> <<>>, up |-> NoMan,
     inp |-> EmptyFn, alloc |-> EmptyFn, clash |-> {}, crf |-> FALSE,
     saved |-> EmptyFn, wrote |-> NoMan, calls |-> 0, cause |-> "none",
     lost |-> {}, fd |-> NoFd]

\* the run as run() has it when the body of `with _scoped_env(...)` starts
NewRun(stage, ts, up, inp, alloc, crf, store, e) ==
    [IdleRun EXCEPT !.stage = stage, !.status = "running", !.pc = 1, !.ts = ts,
                    !.up = up, !.inp = inp, !.alloc = alloc,
                    !.clash = {k \in DOMAIN alloc : Exists(store, alloc[k])},
                    !.crf = crf, !.saved = EnvSave(e, stage)]

\* the run when it raises before its body starts
DeadRun(stage, ts, cause) ==
    [IdleRun EXCEPT !.stage = stage, !.status = "failed", !.ts = ts, !.cause = cause]

CanStart == run.status # "running" /\ nruns < MaxRuns

FaultOk == faults < MaxFaults

Running == run.status = "running" /\ run.pc < ManifestPc(run.stage)

Cur == Prog(run.stage)[run.pc]

\* the path the current statement writes, allocated now if the statement
\* allocates it itself
CurPath ==
    IF Cur.alloc THEN CreateUniqueName(BaseName(Cur.key), fs)
    ELSE run.alloc[Cur.key]

Allocated(r, st, p) ==
    IF st.alloc
    THEN [r EXCEPT !.alloc = @ @@ (st.key :> p),
                   !.clash = IF Exists(fs, p) THEN @ \cup {st.key} ELSE @]
    ELSE r

ReadsOk == \A k \in Cur.reads : Exists(fs, run.alloc[k])

Advance(r) == [r EXCEPT !.pc = @ + 1, !.calls = @ + 1]

\* Raise with the exception swallowed: the run goes on to its next statement
RaiseSwallowed(r, cause) == [r EXCEPT !.cause = cause, !.pc = @ + 1, !.calls = @ + 1]

Raise(r, cause) == [r EXCEPT !.status = "failed", !.cause = cause, !.calls = @ + 1]

\* the exception leaves the `with` block: _scoped_env's finally restores
Fails(r, cause) ==
    /\ run' = Raise(r, cause)
    /\ env' = EnvRestore(env, r.saved)

Clock(tick) == now' = now + tick /\ nruns' = nruns + 1

\* run() raises before the stage's inputs are resolved: no default
\* geodatabase, no Spatial Analyst licence, or (A1) no DEM found
StartFault(stage) ==
    /\ CanStart /\ FaultOk
    /\ run' = DeadRun(stage, Strftime(now), "config")
    /\ faults' = faults + 1
    /\ UNCHANGED <<now, nruns, dem, fs, verified, manifests, manRev, lastOk, env, sv, rq, zs, ac>>

StartA1 ==
    /\ CanStart
    /\ \E tick \in {0, 1} :
        /\ Clock(tick)
        /\ LET prefer_crf == IsBig(dem)
               alloc == [k \in UpfrontKeys("A1") |-> OutPath(BaseName(k), fs, prefer_crf)]
           IN  run' = NewRun("A1", Strftime(now + tick), NoMan, EmptyFn, alloc,
                             prefer_crf, fs, env)
    /\ env' = EnvEnter(env, "A1")
    /\ UNCHANGED <<faults, dem, fs, verified, manifests, manRev, lastOk, sv, rq, zs, ac>>

\* A2, B1, B2: _discover_latest_*_manifest finds no candidate and raises,
\* as the first statement after the licence check
StartNoManifest(stage) ==
    /\ CanStart /\ stage \in {"A2", "B1", "B2"}
    /\ DiscoverLatest(Prereq(stage), manifests) = NoMan
    /\ run' = DeadRun(stage, Strftime(now), "no-manifest")
    /\ UNCHANGED <<now, nruns, faults, dem, fs, verified, manifests, manRev, lastOk, env, sv, rq, zs, ac>>

StartA2 ==
    /\ CanStart
    /\ DiscoverLatest("A1", manifests) # NoMan
    /\ \E tick \in {0, 1} :
        /\ Clock(tick)
        /\ LET manA1 == DiscoverLatest("A1", manifests)
               outs == manifests[manA1].outputs
               inp == [k \in {"fill", "flowdir", "drop", "flowacc"} |-> outs[k]]
               alloc == [k \in UpfrontKeys("A2") |-> CreateUniqueName(BaseName(k), fs)]
           IN  run' = NewRun("A2", Strftime(now + tick), manA1, inp, alloc, FALSE, fs, env)
    /\ env' = EnvEnter(env, "A2")
    /\ UNCHANGED <<faults, dem, fs, verified, manifests, manRev, lastOk, sv, rq, zs, ac>>

\* B1 run(), lines 150-160: the surface, flow direction and stream link
HasKey(outs, k) == k \in DOMAIN outs

SurfaceKey(outs) ==
    IF HasKey(outs, "drop_clean_nonull") THEN "drop_clean_nonull"
    ELSE IF HasKey(outs, "fill") THEN "fill"
    ELSE "none"

B1Resolvable(files, manA2) ==
    LET outs == files[manA2].outputs
        a1 == files[manA2].up
    IN  /\ SurfaceKey(outs) = "none" => a1 \in DOMAIN files
        /\ ~HasKey(outs, "flowdir") => a1 \in DOMAIN files

\* B1Inputs taking the A1 manifest that is the latest one in the project home
B1InputsLatestA1(files, manA2) ==
    LET outs == files[manA2].outputs
        a1 == DiscoverLatest("A1", files)
    IN  [surface |-> IF SurfaceKey(outs) = "none" THEN files[a1].outputs["fill"]
                     ELSE outs[SurfaceKey(outs)],
         flowdir |-> IF HasKey(outs, "flowdir") THEN outs["flowdir"]
                     ELSE files[a1].outputs["flowdir"],
         streamlink |-> outs["streamlink"],
         watershed_ras |-> outs["watershed_ras"]]

B1Inputs(files, manA2) ==
    LET outs == files[manA2].outputs
        a1 == files[manA2].up
    IN  [surface |-> IF SurfaceKey(outs) = "none" THEN files[a1].outputs["fill"]
                     ELSE outs[SurfaceKey(outs)],
         flowdir |-> IF HasKey(outs, "flowdir") THEN outs["flowdir"]
                     ELSE files[a1].outputs["flowdir"],
         streamlink |-> outs["streamlink"],
         watershed_ras |-> outs["watershed_ras"]]

\* a key of lines 150-159 is not in the A2 manifest: the A1 manifest is opened
B1NeedsA1(files, manA2) ==
    LET outs == files[manA2].outputs
    IN  SurfaceKey(outs) = "none" \/ ~HasKey(outs, "flowdir")

\* a1ok: the file the a1_manifest entry names can be opened and parsed
StartB1 ==
    /\ CanStart
    /\ DiscoverLatest("A2", manifests) # NoMan
    /\ \E tick \in {0, 1}, a1ok \in BOOLEAN :
        /\ Clock(tick)
        /\ LET ts == Strftime(now + tick)
               manA2 == DiscoverLatest("A2", manifests)
           IN  /\ ~a1ok => FaultOk /\ B1NeedsA1(manifests, manA2)
               /\ faults' = IF a1ok THEN faults ELSE faults + 1
               /\ IF ~a1ok \/ ~B1Resolvable(manifests, manA2)
                  THEN /\ run' = [DeadRun("B1", ts, "a1-manifest") EXCEPT !.up = manA2]
                       /\ env' = env
                  ELSE LET inp == B1Inputs(manifests, manA2)
                           prefer_crf == IsBig(dem)
                           alloc == [k \in UpfrontKeys("B1") |->
                                        OutPath(BaseName(k), fs, prefer_crf)]
                       IN  /\ run' = NewRun("B1", ts, manA2, inp, alloc, prefer_crf, fs, env)
                           /\ env' = EnvEnter(env, "B1")
    /\ UNCHANGED <<dem, fs, verified, manifests, manRev, lastOk, sv, rq, zs, ac>>

StartB2 ==
    /\ CanStart
    /\ DiscoverLatest("B1", manifests) # NoMan
    /\ \E tick \in {0, 1} :
        /\ Clock(tick)
        /\ LET manB1 == DiscoverLatest("B1", manifests)
               outs == manifests[manB1].outputs
               inp == [k \in {"hand", "watershed_ras"} |-> outs[k]]
           IN  run' = NewRun("B2", Strftime(now + tick), manB1, inp, EmptyFn, FALSE, fs, env)
    /\ env' = EnvEnter(env, "B2")
    /\ UNCHANGED <<faults, dem, fs, verified, manifests, manRev, lastOk, sv, rq, zs, ac>>

-----------------------------------------------------------------------------
(* The statements of a stage's body *)

\* Verified with the existence check left out
VerifiedSkipped(v, kind, p) == v

Verified(v, kind, p) == [v EXCEPT ![kind] = @ \cup {p}]

\* _save_raster(<engine expression>, path).  o is what the environment does:
\*   raise     the engine expression or Raster.save raises
\*   land      the write lands and shows after d failed existence checks
\*   pyramids  as land, and BuildPyramidsAndStatistics raises
\* A write that has not shown by the last check (d > BACKOFF_TRIES) is lost.
StepSave ==
    /\ Running /\ Cur.op = "save"
    /\ LET p == CurPath
           r == Allocated(run, Cur, p)
       IN  \E o \in {"raise", "land", "pyramids"}, d \in Delays :
            LET fault == o # "land" \/ ~SaveFound(d)
                refused == ~ReadsOk \/ ~EngineMayWrite(fs, env, p)
            IN  /\ fault => FaultOk /\ ~refused
                /\ faults' = IF fault THEN faults + 1 ELSE faults
                /\ IF refused \/ o = "raise"
                   THEN /\ Fails(r, IF refused THEN "refused" ELSE "engine")
                        /\ UNCHANGED <<fs, verified>>
                   ELSE IF ~SaveFound(d)
                   THEN /\ Fails([r EXCEPT !.lost = @ \cup {Cur.key}], "not-found")
                        /\ UNCHANGED <<fs, verified>>
                   ELSE /\ fs' = WriteDataset(fs, p)
                        /\ verified' = Verified(verified, "backoff", p)
                        /\ IF PYRAMIDS_OR_STATS /\ o = "pyramids"
                           THEN Fails(r, "pyramids")
                           ELSE run' = Advance(r) /\ env' = env
    /\ UNCHANGED <<now, nruns, dem, manifests, manRev, lastOk, sv, rq, zs, ac>>

\* a geoprocessing tool that writes its own output (FlowDirection's drop
\* raster, StreamToFeature, ZonalStatisticsAsTable, RasterToPolygon), or a
\* Raster.save that nothing checks (HAND_sources, Hthresh_*): no existence
\* check follows, so a lost write goes unnoticed here
StepWrite ==
    /\ Running /\ Cur.op \in {"tool", "rawsave"}
    /\ LET p == CurPath
           r == Allocated(run, Cur, p)
       IN  \E o \in {"raise", "land", "lost"} :
            LET fault == o # "land"
                refused == ~ReadsOk \/ ~EngineMayWrite(fs, env, p)
            IN  /\ fault => FaultOk /\ ~refused
                /\ faults' = IF fault THEN faults + 1 ELSE faults
                /\ IF refused \/ o = "raise"
                   THEN /\ Fails(r, IF refused THEN "refused" ELSE "engine")
                        /\ fs' = fs
                   ELSE /\ run' = Advance(IF o = "lost"
                                          THEN [r EXCEPT !.lost = @ \cup {Cur.key}]
                                          ELSE r)
                        /\ env' = env
                        /\ fs' = IF o = "lost" THEN fs ELSE WriteDataset(fs, p)
    /\ UNCHANGED <<now, nruns, dem, verified, manifests, manRev, lastOk, sv, rq, zs, ac>>

\* A1: `if not _verify_exists(drop_path): raise`
StepVerify ==
    /\ Running /\ Cur.op = "verify"
    /\ LET p == run.alloc[Cur.key]
       IN  \E d \in Delays :
            LET slow == Exists(fs, p) /\ ~VerifyFound(d)
            IN  /\ slow => FaultOk
                /\ faults' = IF slow THEN faults + 1 ELSE faults
                /\ IF Exists(fs, p) /\ VerifyFound(d)
                   THEN /\ run' = Advance(run) /\ env' = env
                        /\ verified' = Verified(verified, "backoff", p)
                   ELSE /\ Fails(run, "not-found")
                        /\ verified' = verified
    /\ UNCHANGED <<now, nruns, dem, fs, manifests, manRev, lastOk, sv, rq, zs, ac>>

\* A1: the cell area, from the raster's properties or, when reading them
\* raises, from GetRasterProperties; the statement raises when both do
StepProp ==
    /\ Running /\ Cur.op = "prop"
    /\ \E o \in {"ok", "raise"} :
        /\ o = "raise" => FaultOk
        /\ faults' = IF o = "raise" THEN faults + 1 ELSE faults
        /\ IF o = "raise" THEN Fails(run, "engine")
           ELSE run' = Advance(run) /\ env' = env
    /\ UNCHANGED <<now, nruns, dem, fs, verified, manifests, manRev, lastOk, sv, rq, zs, ac>>

\* FlowDistanceCalls with the second call made unconditionally
FlowDistanceCallsBoth(e1) == <<"WEIGHTED_MEAN", "MEAN">>

\* the statistics_type of the calls of FlowDistance_sa that
\* _gp_flow_distance_paths makes; e1: the call in the `try` raised
FlowDistanceCalls(e1) ==
    IF e1 THEN <<"WEIGHTED_MEAN", "MEAN">> ELSE <<"WEIGHTED_MEAN">>

\* B1: _gp_flow_distance_paths.  o1 and o2 are what FlowDistance_sa does
\* when called with WEIGHTED_MEAN and, if that raised, with MEAN; fd.raised
\* tells of each call made whether it raised.
StepFlowDist ==
    /\ Running /\ Cur.op = "flowdist"
    /\ LET p == run.alloc[Cur.key]
           refused == ~EngineMayWrite(fs, env, p)
       IN  \E o1 \in {"raise", "land", "lost"}, o2 \in {"raise", "land", "lost"} :
            LET e1 == refused \/ o1 = "raise"
                e2 == refused \/ o2 = "raise"
                last == IF e1 THEN o2 ELSE o1
                n == (IF o1 # "land" /\ ~refused THEN 1 ELSE 0)
                     + (IF e1 /\ o2 # "land" /\ ~refused THEN 1 ELSE 0)
                stats == FlowDistanceCalls(e1)
                r == [run EXCEPT !.fd = [surface |-> run.inp["surface"],
                                         flowdir |-> run.inp["flowdir"],
                                         source |-> run.alloc["hand_sources"],
                                         stats |-> stats,
                                         raised |-> IF e1 THEN <<e1, e2>> ELSE <<e1>>]]
            IN  /\ ReadsOk
                /\ ~e1 => o2 = "land"
                /\ faults + n <= MaxFaults
                /\ faults' = faults + n
                /\ IF e1 /\ e2
                   THEN Fails(r, IF refused THEN "refused" ELSE "engine") /\ fs' = fs
                   ELSE /\ run' = Advance(IF last = "lost"
                                          THEN [r EXCEPT !.lost = @ \cup {Cur.key}]
                                          ELSE r)
                        /\ env' = env
                        /\ fs' = IF last = "lost" THEN fs ELSE WriteDataset(fs, p)
    /\ UNCHANGED <<now, nruns, dem, verified, manifests, manRev, lastOk, sv, rq, zs, ac>>

\* B1: arcpy.Describe(hand_sources) raises when the dataset is not there
StepFlowDistNoSource ==
    /\ Running /\ Cur.op = "flowdist" /\ ~ReadsOk
    /\ Fails(run, "refused")
    /\ UNCHANGED <<now, nruns, faults, dem, fs, verified, manifests, manRev, lastOk, sv, rq, zs, ac>>

\* B1: `if not arcpy.Exists(hand_path): raise`
StepCheck ==
    /\ Running /\ Cur.op = "check"
    /\ LET p == run.alloc[Cur.key]
       IN  IF Exists(fs, p)
           THEN /\ run' = Advance(run) /\ env' = env
                /\ verified' = Verified(verified, "once", p)
           ELSE /\ Fails(run, "not-found")
                /\ verified' = verified
    /\ UNCHANGED <<now, nruns, faults, dem, fs, manifests, manRev, lastOk, sv, rq, zs, ac>>

\* B1: BuildPyramidsAndStatistics(hand_path, ...)
StepPyramids ==
    /\ Running /\ Cur.op = "pyramids"
    /\ \E o \in {"ok", "raise"} :
        /\ o = "raise" => FaultOk /\ PYRAMIDS_OR_STATS
        /\ faults' = IF o = "raise" THEN faults + 1 ELSE faults
        /\ IF o = "raise" THEN Fails(run, "pyramids")
           ELSE run' = Advance(run) /\ env' = env
    /\ UNCHANGED <<now, nruns, dem, fs, verified, manifests, manRev, lastOk, sv, rq, zs, ac>>

\* the "outputs" of the manifest: the run's own paths and, in B1, the
\* watershed raster handed on from the A2 manifest
ManifestOutputs(r) ==
    LET own == [k \in ManifestKeys(r.stage) |-> r.alloc[k]]
    IN  IF r.stage = "B1"
        THEN own @@ [watershed_ras |-> r.inp["watershed_ras"]]
        ELSE own

\* inp is not part of the JSON file: it is the datasets the run read, kept
\* with the manifest for the lineage properties
ManifestOf(r) ==
    [ts |-> r.ts, up |-> r.up, outputs |-> ManifestOutputs(r),
     scalars |-> IF r.stage = "A1" THEN {"cell_area_m2"} ELSE {},
     inp |-> r.inp]

\* open(man_path, "w") creates the file or truncates the one that is there
WriteFile(files, name, content) ==
    IF name \in DOMAIN files THEN [files EXCEPT ![name] = content]
    ELSE files @@ (name :> content)

\* the manifest block of run(): the body has ended without raising
WriteManifest ==
    /\ run.status = "running" /\ run.pc = ManifestPc(run.stage)
    /\ LET name == ManifestName(run.stage, run.ts)
       IN  /\ manifests' = WriteFile(manifests, name, ManifestOf(run))
           /\ manRev' = WriteFile(manRev, name,
                                  IF name \in DOMAIN manRev THEN manRev[name] + 1 ELSE 1)
           /\ lastOk' = [lastOk EXCEPT ![run.stage] = name]
           /\ run' = [run EXCEPT !.status = "ok", !.wrote = name]
    /\ env' = EnvRestore(env, run.saved)
    /\ UNCHANGED <<now, nruns, faults, dem, fs, verified, sv, rq, zs, ac>>

-----------------------------------------------------------------------------

IdleSave == [pc |-> "idle"]

IdleRunoff == [pc |-> "idle"]

IdleMasks == [pc |-> "idle"]

IdleChannels == [pc |-> "idle"]

Init ==
    /\ now = 0 /\ nruns = 0 /\ faults = 0
    /\ dem \in DemChoices
    /\ fs = EmptyFn
    /\ verified = [backoff |-> {}, once |-> {}]
    /\ manifests = EmptyFn /\ manRev = EmptyFn
    /\ lastOk = [s \in Stages |-> NoMan]
    /\ env = AmbientEnv
    /\ run = IdleRun
    /\ sv = IdleSave /\ rq = IdleRunoff /\ zs = IdleMasks /\ ac = IdleChannels

Next ==
    \/ \E stage \in Stages : StartFault(stage)
    \/ \E stage \in Stages : StartNoManifest(stage)
    \/ StartA1 \/ StartA2 \/ StartB1 \/ StartB2
    \/ StepSave \/ StepWrite \/ StepVerify \/ StepProp
    \/ StepFlowDist \/ StepFlowDistNoSource \/ StepCheck \/ StepPyramids
    \/ WriteManifest

Spec == Init /\ [][Next]_vars

-----------------------------------------------------------------------------
(* _save_raster, statement by statement (SpecSave)                         *)
(* sv.d is the latency of the store: the number of sleeps after which the  *)
(* written path shows to arcpy.Exists; d > BACKOFF_TRIES never shows.      *)

\* BACKOFF_BASE_SEC * (1.7 ** i), in units of 10^-BACKOFF_TRIES seconds
RECURSIVE Pow(_, _)
Pow(b, e) == IF e = 0 THEN 1 ELSE b * Pow(b, e - 1)

BackoffWait(i) ==
    BACKOFF_BASE_TENTHS * Pow(BACKOFF_FACTOR_TENTHS, i) * Pow(10, BACKOFF_TRIES - 1 - i)

\* arcpy.Exists(out_path) at this point of the call
SvVisible(s) == Len(s.slept) >= s.d

SaveCall(d) ==
    [pc |-> "save", d |-> d, i |-> 0, slept |-> <<>>, checks |-> 0,
     saved |-> FALSE, result |-> "none", cause |-> "none", swallowed |-> FALSE]

SvRaise(s, cause) == [s EXCEPT !.pc = "done", !.result = "raised", !.cause = cause]

\* sa_raster_obj.save(out_path)
SvSave ==
    /\ sv.pc = "save"
    /\ \E o \in {"ok", "raise"} :
         sv' = IF o = "raise" THEN SvRaise(sv, "save")
               ELSE [sv EXCEPT !.pc = "loop", !.saved = TRUE]
    /\ UNCHANGED <<pipeVars, rq, zs, ac>>

\* for i in range(BACKOFF_TRIES):
SvLoop ==
    /\ sv.pc = "loop"
    /\ sv' = [sv EXCEPT !.pc = IF sv.i < BACKOFF_TRIES THEN "check" ELSE "final"]
    /\ UNCHANGED <<pipeVars, rq, zs, ac>>

\* if arcpy.Exists(out_path): break
SvCheck ==
    /\ sv.pc = "check"
    /\ sv' = [sv EXCEPT !.checks = @ + 1,
                        !.pc = IF SvVisible(sv) THEN "final" ELSE "sleep"]
    /\ UNCHANGED <<pipeVars, rq, zs, ac>>

\* time.sleep(BACKOFF_BASE_SEC * (1.7 ** i))
SvSleep ==
    /\ sv.pc = "sleep"
    /\ sv' = [sv EXCEPT !.slept = Append(@, BackoffWait(sv.i)),
                        !.i = @ + 1, !.pc = "loop"]
    /\ UNCHANGED <<pipeVars, rq, zs, ac>>

\* if not arcpy.Exists(out_path): raise RuntimeError
SvFinal ==
    /\ sv.pc = "final"
    /\ sv' = IF ~SvVisible(sv)
             THEN SvRaise([sv EXCEPT !.checks = @ + 1], "not-found")
             ELSE [sv EXCEPT !.checks = @ + 1,
                             !.pc = IF PYRAMIDS_OR_STATS THEN "pyramids" ELSE "cleanup"]
    /\ UNCHANGED <<pipeVars, rq, zs, ac>>

\* arcpy.management.BuildPyramidsAndStatistics(out_path, ...), outside any try
SvPyramids ==
    /\ sv.pc = "pyramids"
    /\ \E o \in {"ok", "raise"} :
         sv' = IF o = "raise" THEN SvRaise(sv, "pyramids")
               ELSE [sv EXCEPT !.pc = "cleanup"]
    /\ UNCHANGED <<pipeVars, rq, zs, ac>>

\* try: del ...; gc.collect(); ClearWorkspaceCache  except Exception: pass
SvCleanup ==
    /\ sv.pc = "cleanup"
    /\ \E o \in {"ok", "raise"} :
         sv' = [sv EXCEPT !.pc = "done", !.result = "returned",
                          !.swallowed = (o = "raise")]
    /\ UNCHANGED <<pipeVars, rq, zs, ac>>

InitSave ==
    /\ now = 0 /\ nruns = 0 /\ faults = 0
    /\ dem \in DemChoices
    /\ fs = EmptyFn
    /\ verified = [backoff |-> {}, once |-> {}]
    /\ manifests = EmptyFn /\ manRev = EmptyFn
    /\ lastOk = [s \in Stages |-> NoMan]
    /\ env = AmbientEnv
    /\ run = IdleRun
    /\ sv \in {SaveCall(d) : d \in Delays}
    /\ rq = IdleRunoff /\ zs = IdleMasks /\ ac = IdleChannels

NextSave ==
    \/ SvSave \/ SvLoop \/ SvCheck \/ SvSleep \/ SvFinal \/ SvPyramids \/ SvCleanup

SpecSave == InitSave /\ [][NextSave]_vars

-----------------------------------------------------------------------------
(* _runoff_depth_from_rainfall over exact rationals (SpecRunoff)           *)
(* A number is <<numerator, denominator>> in lowest terms, denominator > 0.*)

Abs(x) == IF x < 0 THEN -x ELSE x

RECURSIVE Gcd(_, _)
Gcd(a, b) == IF b = 0 THEN a ELSE Gcd(b, a % b)

Rat(n, d) == LET g == Gcd(Abs(n), d) IN <<n \div g, d \div g>>

R(n) == <<n, 1>>

RatAdd(x, y) ==
    LET g == Gcd(x[2], y[2])
    IN  Rat(x[1] * (y[2] \div g) + y[1] * (x[2] \div g), (x[2] \div g) * y[2])

RatSub(x, y) == RatAdd(x, <<-y[1], y[2]>>)

RatMul(x, y) ==
    LET g1 == Gcd(Abs(x[1]), y[2])
        g2 == Gcd(Abs(y[1]), x[2])
    IN  Rat((x[1] \div g1) * (y[1] \div g2), (x[2] \div g2) * (y[2] \div g1))

\* x / y for y # 0
RatDiv(x, y) ==
    RatMul(x, IF y[1] > 0 THEN <<y[2], y[1]>> ELSE <<-y[2], -y[1]>>)

RatLeq(x, y) == x[1] * y[2] <= y[1] * x[2]

RatMax(x, y) == IF RatLeq(y, x) THEN x ELSE y

\* str.upper() on the mode strings in use
Upper(mode) ==
    CASE mode \in {"CN", "cn", "Cn"} -> "CN"
      [] mode \in {"C", "c"} -> "C"
      [] OTHER -> mode

\* the outcome of a call: a returned value, or ZeroDivisionError
Returns(q) == [raised |-> FALSE, value |-> q]

ZeroDivisionError == [raised |-> TRUE, value |-> R(0)]

\* _runoff_depth_from_rainfall with the `P <= Ia_m` test left out
RunoffDepthNoAbstractionTest(P_m, mode, cn, ia_ratio, c_eff) ==
    IF RatLeq(P_m, R(0)) THEN Returns(R(0))
    ELSE IF Upper(mode) = "CN"
    THEN IF cn[1] = 0 THEN ZeroDivisionError
         ELSE LET S_m == RatMax(RatDiv(RatSub(RatDiv(R(25400), cn), R(254)), R(1000)), R(0))
                  Ia_m == RatMul(ia_ratio, S_m)
              IN  IF RatLeq(S_m, R(0)) THEN Returns(R(0))
                  ELSE Returns(RatMax(
                         RatDiv(RatMul(RatSub(P_m, Ia_m), RatSub(P_m, Ia_m)),
                                RatAdd(P_m, RatMul(RatSub(R(1), ia_ratio), S_m))),
                         R(0)))
    ELSE Returns(RatMax(RatMul(c_eff, P_m), R(0)))

RunoffDepthFromRainfall(P_m, mode, cn, ia_ratio, c_eff) ==
    LET P == P_m
    IN  IF RatLeq(P, R(0)) THEN Returns(R(0))
        ELSE IF Upper(mode) = "CN"
        THEN IF cn[1] = 0 THEN ZeroDivisionError
             ELSE LET S_m == RatMax(RatDiv(RatSub(RatDiv(R(25400), cn), R(254)),
                                           R(1000)), R(0))
                      Ia_m == RatMul(ia_ratio, S_m)
                  IN  IF RatLeq(P, Ia_m) \/ RatLeq(S_m, R(0)) THEN Returns(R(0))
                      ELSE Returns(RatMax(
                             RatDiv(RatMul(RatSub(P, Ia_m), RatSub(P, Ia_m)),
                                    RatAdd(P, RatMul(RatSub(R(1), ia_ratio), S_m))),
                             R(0)))
        ELSE Returns(RatMax(RatMul(c_eff, P), R(0)))

\* the arguments tried: the configured values of B2 (RAINFALL_SET, RUNOFF_MODE,
\* CN_DEFAULT, IA_RATIO, C_EFF) and the edges of every test
RainfallChoices == {<<-1, 100>>, R(0), <<1, 100>>, <<1, 20>>, <<1, 10>>, <<1, 2>>}

ModeChoices == {"CN", "cn", "C", "c"}

CnChoices == {R(-10), R(0), R(30), R(50), R(90), R(100), R(120)}

IaRatioChoices == {R(0), <<1, 5>>, R(1), <<3, 2>>}

CEffChoices == {<<-1, 2>>, R(0), <<4, 5>>, R(1)}

RunoffCallOf(P, mode, cn, ia, c) ==
    [pc |-> "call", P |-> P, mode |-> mode, cn |-> cn, ia |-> ia, c |-> c,
     q |-> Returns(R(0))]

RunoffCall ==
    /\ rq.pc = "call"
    /\ rq' = [rq EXCEPT !.pc = "done",
                        !.q = RunoffDepthFromRainfall(rq.P, rq.mode, rq.cn, rq.ia, rq.c)]
    /\ UNCHANGED <<pipeVars, sv, zs, ac>>

InitRunoff ==
    /\ now = 0 /\ nruns = 0 /\ faults = 0
    /\ dem \in DemChoices
    /\ fs = EmptyFn
    /\ verified = [backoff |-> {}, once |-> {}]
    /\ manifests = EmptyFn /\ manRev = EmptyFn
    /\ lastOk = [s \in Stages |-> NoMan]
    /\ env = AmbientEnv
    /\ run = IdleRun
    /\ sv = IdleSave /\ zs = IdleMasks /\ ac = IdleChannels
    /\ rq \in {RunoffCallOf(P, mode, cn, ia, c) :
                 P \in RainfallChoices, mode \in ModeChoices, cn \in CnChoices,
                 ia \in IaRatioChoices, c \in CEffChoices}

NextRunoff == RunoffCall

SpecRunoff == InitRunoff /\ [][NextRunoff]_vars

-----------------------------------------------------------------------------
(* B2 run(): the geometric masks, the zonal stage-height solver and the    *)
(* rainfall masks, cell by cell (SpecMasks)                                *)
(*                                                                         *)
(* A raster is one row of cells: ox is the column of its first cell (its   *)
(* origin), cw and ch the cell width and height.  A HAND value is a        *)
(* rational or NaN; a watershed value is a zone id or NODATA_INT.          *)
(* A height is scale * frac, frac a binary fraction <<b0, b1, ..., bn>> =  *)
(* b0 + b1/2 + ... + bn/2^n, so that the 40 halvings of the bisection are  *)
(* exact.                                                                  *)

\* float("nan"), the nodata_to_value of the HAND array
NaN == <<0, 0>>

\* np.isfinite
IsFinite(v) == v[2] # 0

\* nodata_to_value of the watershed array, and NoData of an integer raster
NODATA_INT == -2147483647 - 1

RatLess(x, y) == ~RatLeq(y, x)

RatMin(x, y) == IF RatLeq(x, y) THEN x ELSE y

Sign(n) == IF n > 0 THEN 1 ELSE IF n < 0 THEN -1 ELSE 0

\* the sign of frac - a/b from position i on, rem/b being what is left of a/b
RECURSIVE FracCmpFrom(_, _, _, _)
FracCmpFrom(f, i, rem, b) ==
    IF i > Len(f) THEN (IF rem > 0 THEN -1 ELSE 0)
    ELSE LET d == (2 * rem) \div b
         IN  IF f[i] > d THEN 1
             ELSE IF f[i] < d THEN -1
             ELSE FracCmpFrom(f, i + 1, (2 * rem) % b, b)

\* the sign of frac - r
FracCmp(f, r) ==
    IF r[1] < 0 THEN 1
    ELSE LET q == r[1] \div r[2]
         IN  IF f[1] > q THEN 1
             ELSE IF f[1] < q THEN -1
             ELSE FracCmpFrom(f, 2, r[1] % r[2], r[2])

\* a float holding the rational r
HRat(r) == [scale |-> r, frac |-> <<1>>]

\* the sign of h - r
HCmp(h, r) ==
    IF h.scale[1] = 0 THEN -Sign(r[1])
    ELSE IF h.scale[1] > 0 THEN FracCmp(h.frac, RatDiv(r, h.scale))
    ELSE -FracCmp(h.frac, RatDiv(r, h.scale))

\* frac without its trailing zeros
RECURSIVE Trim(_)
Trim(f) ==
    IF Len(f) > 1 /\ f[Len(f)] = 0 THEN Trim(SubSeq(f, 1, Len(f) - 1)) ELSE f

Pad(f, n) == f \o [i \in 1..(n - Len(f)) |-> 0]

\* a + b for two fractions whose sum is below 2
AddFrac(a, b) ==
    LET n == IF Len(a) > Len(b) THEN Len(a) ELSE Len(b)
        x == Pad(a, n)
        y == Pad(b, n)
        carry[i \in 1..(n + 1)] ==
            IF i = n + 1 THEN 0 ELSE (x[i] + y[i] + carry[i + 1]) \div 2
    IN  [i \in 1..n |-> (x[i] + y[i] + carry[i + 1]) % 2]

\* 0.5 * (h_lo + h_hi), both on the same scale
Mid(h_lo, h_hi) ==
    [scale |-> h_hi.scale, frac |-> Trim(<<0>> \o AddFrac(h_lo.frac, h_hi.frac))]

\* hv = v[ws_arr == z]; hv = hv[np.isfinite(hv)], from cell i on
RECURSIVE ZoneValuesFrom(_, _, _, _)
ZoneValuesFrom(hand_arr, ws_arr, z, i) ==
    IF i > Len(hand_arr) THEN <<>>
    ELSE (IF ws_arr[i] = z /\ IsFinite(hand_arr[i]) THEN <<hand_arr[i]>> ELSE <<>>)
         \o ZoneValuesFrom(hand_arr, ws_arr, z, i + 1)

\* ZoneValues without the selection `ws_arr == z`
ZoneValuesAll(hand_arr, ws_arr, z) ==
    SortSeq(SelectSeq(hand_arr, IsFinite), RatLess)

\* ... followed by hv.sort()
ZoneValues(hand_arr, ws_arr, z) == SortSeq(ZoneValuesFrom(hand_arr, ws_arr, z, 1), RatLess)

\* zones = np.unique(ws_arr); zones = zones[zones >= 0]
RECURSIVE SortedSeqOf(_)
SortedSeqOf(S) ==
    IF S = {} THEN <<>>
    ELSE LET m == CHOOSE x \in S : \A y \in S : x <= y
         IN  <<m>> \o SortedSeqOf(S \ {m})

\* Zones keeping the ids above 0 only
ZonesPositive(ws_arr) == SortedSeqOf({ws_arr[i] : i \in 1..Len(ws_arr)} \cap (Nat \ {0}))

Zones(ws_arr) == SortedSeqOf({ws_arr[i] : i \in 1..Len(ws_arr)} \cap Nat)

\* prefix[k-1] of prefix = np.cumsum(hv)
RECURSIVE PrefixSum(_, _)
PrefixSum(hv, k) == IF k = 0 THEN R(0) ELSE RatAdd(PrefixSum(hv, k - 1), hv[k])

\* np.searchsorted(hv, h, side="right")
SearchSortedRight(hv, h) == Cardinality({i \in 1..Len(hv) : HCmp(h, hv[i]) >= 0})

\* the sign of volume_at(h) - V, volume_at(h) = cell_area * (k * h - Sv)
VolumeAtCmp(hv, cell_area, h, V) ==
    LET k == SearchSortedRight(hv, h)
    IN  IF k <= 0 THEN -Sign(V[1])
        ELSE HCmp(h, RatDiv(RatAdd(RatDiv(V, cell_area), PrefixSum(hv, k)), R(k)))

\* VolumeAt reading prefix[k] where the code reads prefix[k-1]
VolumeAtPrefixOff(hv, cell_area, h) ==
    LET k == SearchSortedRight(hv, HRat(h))
    IN  IF k <= 0 THEN R(0)
        ELSE RatMul(cell_area,
                    RatSub(RatMul(R(k), h),
                           PrefixSum(hv, IF k < Len(hv) THEN k + 1 ELSE k)))

\* volume_at(h) at a height h that is a rational:
\* k = searchsorted(hv, h, "right"); 0.0 if k <= 0, else
\* cell_area * (k * h - prefix[k-1])
VolumeAt(hv, cell_area, h) ==
    LET k == SearchSortedRight(hv, HRat(h))
    IN  IF k <= 0 THEN R(0)
        ELSE RatMul(cell_area, RatSub(RatMul(R(k), h), PrefixSum(hv, k)))

\* the 0.01 of `float(hv.max()) + 0.01`
EPS == <<1, 100>>

\* one pass fewer
BisectItersShort == 40 - 1

\* range(40)
BISECT_ITERS == 40

\* HHi0 without the 0.01 above the highest cell
HHi0NoEps(hv, max_stage_cap_m) == RatMin(max_stage_cap_m, hv[Len(hv)])

\* HHi0 without the cap
HHi0NoCap(hv, max_stage_cap_m) == RatAdd(hv[Len(hv)], EPS)

\* h_hi = min(max_stage_cap_m, float(hv.max()) + 0.01)
HHi0(hv, max_stage_cap_m) == RatMin(max_stage_cap_m, RatAdd(hv[Len(hv)], EPS))

\* VTarget without the zone's area
VTargetNoArea(hv, cell_area, Qm) == Qm

\* V_target = Qm * A_zone, A_zone = hv.size * cell_area
VTarget(hv, cell_area, Qm) == RatMul(Qm, RatMul(R(Len(hv)), cell_area))

Raster(ox, cw, ch, cells) ==
    [ox |-> ox, cw |-> cw, ch |-> ch, width |-> Len(cells), height |-> 1,
     cells |-> cells]

\* SameGrid comparing the cell width alone
SameGridCellOnly(hand, wshed) == hand.cw = wshed.cw

\* same_grid of _build_zone_stage_threshold_raster
SameGrid(hand, wshed) ==
    /\ hand.cw = wshed.cw
    /\ hand.width = wshed.width /\ hand.height = wshed.height

\* cell_area = float(hand.meanCellWidth) * float(hand.meanCellHeight)
CellArea(hand) == R(hand.cw * hand.ch)

\* NoData of the stage-height raster
NoHeight == [scale |-> NaN, frac |-> <<0>>]

\* the value of a raster at column x of the map, nodata outside the raster
ValueAt(ras, x, nodata) ==
    LET j == x - ras.ox + 1
    IN  IF j \in 1..ras.width THEN ras.cells[j] ELSE nodata

\* GeomMask with nodata cells written as 0
GeomMaskNoDataZero(hand, h) ==
    [hand EXCEPT !.cells =
        [i \in 1..hand.width |->
            IF IsFinite(hand.cells[i]) /\ RatLeq(hand.cells[i], h) THEN 1 ELSE 0]]

\* Con(arcpy.Raster(hand_path) <= h, 1, 0)
GeomMask(hand, h) ==
    [hand EXCEPT !.cells =
        [i \in 1..hand.width |->
            IF ~IsFinite(hand.cells[i]) THEN NODATA_INT
            ELSE IF RatLeq(hand.cells[i], h) THEN 1 ELSE 0]]

\* Reclassify(wshed, "Value", remap, missing_values="NODATA")
Reclassify(wshed, zone_to_h) ==
    [wshed EXCEPT !.cells =
        [j \in 1..wshed.width |->
            IF wshed.cells[j] \in DOMAIN zone_to_h THEN zone_to_h[wshed.cells[j]]
            ELSE NoHeight]]

\* RainMask pairing the cells by array index instead of by map position
RainMaskByIndex(hand, hthresh) ==
    [hand EXCEPT !.cells =
        [i \in 1..hand.width |->
            LET t == IF i \in 1..hthresh.width THEN hthresh.cells[i] ELSE NoHeight
            IN  IF ~IsFinite(hand.cells[i]) \/ ~IsFinite(t.scale) THEN NODATA_INT
                ELSE IF HCmp(t, hand.cells[i]) >= 0 THEN 1 ELSE 0]]

\* Con(arcpy.Raster(hand_path) <= arcpy.Raster(hthresh_path), 1, 0), on the
\* grid of the HAND raster (extent, snapRaster and cellSize of the scoped env)
RainMask(hand, hthresh) ==
    [hand EXCEPT !.cells =
        [i \in 1..hand.width |->
            LET t == ValueAt(hthresh, hand.ox + i - 1, NoHeight)
            IN  IF ~IsFinite(hand.cells[i]) \/ ~IsFinite(t.scale) THEN NODATA_INT
                ELSE IF HCmp(t, hand.cells[i]) >= 0 THEN 1 ELSE 0]]

\* the (name, h) list of the geometric masks
GEOM_SET ==
    << <<"01cm", <<1, 100>>>>, <<"05cm", <<1, 20>>>>, <<"10cm", <<1, 10>>>> >>

\* the inputs of a run: the rasters of the B1 manifest and the configuration
HandChoices ==
    { Raster(0, 1, 1, cells) : cells \in
        { <<R(0), <<1, 10>>, <<1, 5>>, <<3, 10>>>>,
          <<R(0), NaN, <<19, 20>>, <<19, 20>>>>,
          <<R(-1), <<-1, 2>>, NaN, NaN>>,
          <<<<19, 20>>, <<19, 20>>, <<19, 20>>, <<19, 20>>>>,
          <<R(0), R(2), R(2), NaN>>,
          <<R(0), <<1, 10>>, NaN, NaN>>,
          <<R(-1), R(-1), <<1, 10>>, <<1, 10>>>> } }

WatershedChoices ==
    { Raster(0, 1, 1, <<0, 0, 0, 0>>),
      Raster(0, 1, 1, <<0, 0, 1, 1>>),
      Raster(0, 1, 1, <<1, NODATA_INT, -1, 1>>),
      Raster(0, 1, 1, <<NODATA_INT, NODATA_INT, -1, -1>>),
      Raster(1, 1, 1, <<0, 0, 1, 1>>),
      Raster(0, 1, 2, <<0, 0, 1, 1>>),
      Raster(0, 2, 1, <<0, 0, 1, 1>>),
      Raster(0, 1, 1, <<0, 0, 1>>),
      Raster(0, 1, 1, <<1, 1, 0, 0>>) }

\* RAINFALL_SET, RUNOFF_MODE, CN_DEFAULT, IA_RATIO, C_EFF, MAX_STAGE_CAP_M
ConfigChoices ==
    LET configured == << <<"01cmRain", <<1, 100>>>>, <<"05cmRain", <<1, 20>>>>,
                         <<"10cmRain", <<1, 10>>>> >>
        extremes == << <<"01cmRain", R(0)>>, <<"05cmRain", <<1, 20>>>>,
                       <<"10cmRain", R(2)>> >>
    IN  { [rain |-> x[1], mode |-> x[2], cn |-> R(90), ia |-> <<1, 5>>, c |-> x[3],
           cap |-> cap] :
            x \in { <<configured, "CN", <<4, 5>>>>, <<configured, "C", <<4, 5>>>>,
                    <<configured, "C", <<3, 4>>>>, <<extremes, "C", <<4, 5>>>> },
            cap \in { R(1), <<1, 4>> } }

NoManifest == [written |-> FALSE]

MasksRun(hand, wshed, cfg) ==
    [pc |-> "geom", status |-> "running", cause |-> "none",
     hand |-> hand, wshed |-> wshed, cfg |-> cfg,
     ras |-> EmptyFn, fcs |-> EmptyFn,
     masks_geom |-> <<>>, masks_rain |-> <<>>,
     ri |-> 1, Qm |-> R(0), zones |-> <<>>, zi |-> 1, zone_to_h |-> EmptyFn,
     hv |-> <<>>, V_target |-> R(0), h_lo |-> HRat(R(0)), h_hi |-> HRat(R(0)),
     it |-> 0, sol |-> EmptyFn, log |-> EmptyFn, manifest |-> NoManifest]

\* the run ends in an exception: the manifest code is never reached
MasksRaise(s, cause) == [s EXCEPT !.pc = "done", !.status = "failed", !.cause = cause]

\* lines 212-215: one pass of the loop over the geometric heights
MkGeomMask ==
    /\ zs.pc = "geom"
    /\ LET gi == Len(zs.masks_geom) + 1
           out_r == <<"Flood", GEOM_SET[gi][1]>>
       IN  zs' = [zs EXCEPT
                    !.ras = @ @@ (out_r :> GeomMask(zs.hand, GEOM_SET[gi][2])),
                    !.masks_geom = Append(@, out_r),
                    !.pc = IF gi = Len(GEOM_SET) THEN "geom_fc" ELSE "geom"]
    /\ UNCHANGED <<pipeVars, sv, rq, ac>>

\* lines 216-217: RasterToPolygon(masks_geom[2], flood10_fc, ...)
MkGeomFc ==
    /\ zs.pc = "geom_fc"
    /\ zs' = [zs EXCEPT
                !.fcs = @ @@ (<<"Flood10cm", "fc">> :>
                              [of |-> zs.masks_geom[3], cells |-> zs.ras[zs.masks_geom[3]].cells]),
                !.pc = "rain"]
    /\ UNCHANGED <<pipeVars, sv, rq, ac>>

\* lines 137-152: the solver is entered for RAINFALL_SET[ri]
SolverEnter ==
    /\ zs.pc = "rain"
    /\ zs' = IF ~SameGrid(zs.hand, zs.wshed) THEN MasksRaise(zs, "grid")
             ELSE IF Zones(zs.wshed.cells) = <<>> THEN MasksRaise(zs, "no-zones")
             ELSE LET q == RunoffDepthFromRainfall(zs.cfg.rain[zs.ri][2], zs.cfg.mode,
                                                   zs.cfg.cn, zs.cfg.ia, zs.cfg.c)
                  IN  [zs EXCEPT !.Qm = q.value, !.zones = Zones(zs.wshed.cells),
                                 !.zi = 1, !.zone_to_h = EmptyFn, !.sol = EmptyFn,
                                 !.pc = "zone"]
    /\ UNCHANGED <<pipeVars, sv, rq, ac>>

\* lines 155-175: the head of the loop over the zones, up to the bisection
ZoneNext ==
    /\ zs.pc = "zone"
    /\ zs' =
         IF zs.zi > Len(zs.zones) THEN [zs EXCEPT !.pc = "remap"]
         ELSE
           LET z == zs.zones[zs.zi]
               hv == ZoneValues(zs.hand.cells, zs.wshed.cells, z)
           IN  IF hv = <<>>
               THEN [zs EXCEPT !.zone_to_h = @ @@ (z :> HRat(R(0))),
                               !.sol = @ @@ (z :> [kind |-> "empty"]),
                               !.zi = @ + 1]
               ELSE
                 LET V == VTarget(hv, CellArea(zs.hand), zs.Qm)
                     h0 == HHi0(hv, zs.cfg.cap)
                 IN  IF RatSub(VolumeAt(hv, CellArea(zs.hand), h0), V)[1] < 0
                     THEN [zs EXCEPT !.zone_to_h = @ @@ (z :> HRat(h0)),
                                     !.sol = @ @@ (z :> [kind |-> "capped", hv |-> hv,
                                                         V |-> V, h0 |-> h0]),
                                     !.zi = @ + 1]
                     ELSE [zs EXCEPT !.hv = hv, !.V_target = V,
                                     !.h_lo = [scale |-> h0, frac |-> <<0>>],
                                     !.h_hi = HRat(h0), !.it = 0, !.pc = "bisect"]
    /\ UNCHANGED <<pipeVars, sv, rq, ac>>

\* lines 176-179: one pass of `for _ in range(40)`
BisectStep ==
    /\ zs.pc = "bisect" /\ zs.it < BISECT_ITERS
    /\ LET h_mid == Mid(zs.h_lo, zs.h_hi)
       IN  zs' = IF VolumeAtCmp(zs.hv, CellArea(zs.hand), h_mid, zs.V_target) < 0
                 THEN [zs EXCEPT !.h_lo = h_mid, !.it = @ + 1]
                 ELSE [zs EXCEPT !.h_hi = h_mid, !.it = @ + 1]
    /\ UNCHANGED <<pipeVars, sv, rq, ac>>

\* line 180: zone_to_h[int(z)] = h_hi
BisectEnd ==
    /\ zs.pc = "bisect" /\ zs.it = BISECT_ITERS
    /\ LET z == zs.zones[zs.zi]
       IN  zs' = [zs EXCEPT
                    !.zone_to_h = @ @@ (z :> zs.h_hi),
                    !.sol = @ @@ (z :> [kind |-> "solved", hv |-> zs.hv,
                                        V |-> zs.V_target, h0 |-> zs.h_hi.scale,
                                        h_lo |-> zs.h_lo]),
                    !.zi = @ + 1, !.pc = "zone"]
    /\ UNCHANGED <<pipeVars, sv, rq, ac>>

\* lines 182-185: the stage heights are written as a raster
RemapHeights ==
    /\ zs.pc = "remap"
    /\ LET hthresh_path == <<"Hthresh", zs.cfg.rain[zs.ri][1]>>
       IN  zs' = [zs EXCEPT
                    !.ras = @ @@ (hthresh_path :> Reclassify(zs.wshed, zs.zone_to_h)),
                    !.pc = "mask"]
    /\ UNCHANGED <<pipeVars, sv, rq, ac>>

\* lines 226-228: the rainfall mask of RAINFALL_SET[ri]
MkRainMask ==
    /\ zs.pc = "mask"
    /\ LET tag == zs.cfg.rain[zs.ri][1]
           out_r == <<"Flood", tag>>
       IN  zs' = [zs EXCEPT
                    !.ras = @ @@ (out_r :> RainMask(zs.hand, zs.ras[<<"Hthresh", tag>>])),
                    !.masks_rain = Append(@, out_r),
                    !.log = @ @@ (out_r :> [P |-> zs.cfg.rain[zs.ri][2], Qm |-> zs.Qm,
                                            zone_to_h |-> zs.zone_to_h, sol |-> zs.sol]),
                    !.ri = @ + 1,
                    !.pc = IF zs.ri = Len(zs.cfg.rain) THEN "rain_fc" ELSE "rain"]
    /\ UNCHANGED <<pipeVars, sv, rq, ac>>

\* MkRainFc taking masks_rain[0]
MkRainFcFirst ==
    /\ zs.pc = "rain_fc"
    /\ zs' = [zs EXCEPT
                !.fcs = @ @@ (<<"Flood10cmRain", "fc">> :>
                              [of |-> zs.masks_rain[1], cells |-> zs.ras[zs.masks_rain[1]].cells]),
                !.pc = "manifest"]
    /\ UNCHANGED <<pipeVars, sv, rq, ac>>

\* lines 229-230: RasterToPolygon(masks_rain[2], flood10P_fc, ...)
MkRainFc ==
    /\ zs.pc = "rain_fc"
    /\ zs' = [zs EXCEPT
                !.fcs = @ @@ (<<"Flood10cmRain", "fc">> :>
                              [of |-> zs.masks_rain[3], cells |-> zs.ras[zs.masks_rain[3]].cells]),
                !.pc = "manifest"]
    /\ UNCHANGED <<pipeVars, sv, rq, ac>>

\* lines 232-249: the manifest
MkManifest ==
    /\ zs.pc = "manifest"
    /\ zs' = [zs EXCEPT
                !.manifest = [written |-> TRUE, geom_masks |-> zs.masks_geom,
                              flood10_geom_fc |-> <<"Flood10cm", "fc">>,
                              rain_masks |-> zs.masks_rain,
                              flood10_rain_fc |-> <<"Flood10cmRain", "fc">>],
                !.status = "ok", !.pc = "done"]
    /\ UNCHANGED <<pipeVars, sv, rq, ac>>

InitMasks ==
    /\ now = 0 /\ nruns = 0 /\ faults = 0
    /\ dem \in {d \in DemChoices : IsBig(d)}
    /\ fs = EmptyFn
    /\ verified = [backoff |-> {}, once |-> {}]
    /\ manifests = EmptyFn /\ manRev = EmptyFn
    /\ lastOk = [s \in Stages |-> NoMan]
    /\ env = AmbientEnv
    /\ run = IdleRun
    /\ sv = IdleSave /\ rq = IdleRunoff /\ ac = IdleChannels
    /\ zs \in {MasksRun(hand, wshed, cfg) :
                 hand \in HandChoices, wshed \in WatershedChoices, cfg \in ConfigChoices}

NextMasks ==
    \/ MkGeomMask \/ MkGeomFc \/ SolverEnter \/ ZoneNext \/ BisectStep \/ BisectEnd
    \/ RemapHeights \/ MkRainMask \/ MkRainFc \/ MkManifest

SpecMasks == InitMasks /\ [][NextMasks]_vars

-----------------------------------------------------------------------------
(* A2_Streams_Watersheds: the channel classes and their combination, cell  *)
(* by cell (SpecChannels).                                                 *)
(*                                                                         *)
(* A raster is a row of cells; a cell is a rational or NaN (NoData).  The  *)
(* map-algebra functions give NoData wherever an operand is NoData.        *)

MICRO_THRESHOLD_M2 == 2500

\* a main-channel threshold below the micro-drainage threshold
MainThresholdLow == MICRO_THRESHOLD_M2 \div 2

MAIN_THRESHOLD_M2 == 10000

SLOPE_WEIGHT_THRESHOLD == 500

\* the 0.01 and 100.0 of the drop cleaning, and the 100.0 of Divide
DROP_MIN == <<1, 100>>

DROP_MAX == 100

PERCENT == 100

\* the 2 of GreaterThanEqual(sum123, 2)
VOTES_MIN == 2

Bool(b) == IF b THEN R(1) ELSE R(0)

Times(a, b) == IF IsFinite(a) /\ IsFinite(b) THEN RatMul(a, b) ELSE NaN

Divide(a, b) == IF IsFinite(a) /\ IsFinite(b) /\ b[1] # 0 THEN RatDiv(a, b) ELSE NaN

Plus(a, b) == IF IsFinite(a) /\ IsFinite(b) THEN RatAdd(a, b) ELSE NaN

GreaterThanEqual(a, b) == IF IsFinite(a) /\ IsFinite(b) THEN Bool(RatLeq(b, a)) ELSE NaN

LessThan(a, b) == IF IsFinite(a) /\ IsFinite(b) THEN Bool(RatLess(a, b)) ELSE NaN

GreaterThan(a, b) == IF IsFinite(a) /\ IsFinite(b) THEN Bool(RatLess(b, a)) ELSE NaN

BooleanOr(a, b) ==
    IF IsFinite(a) /\ IsFinite(b) THEN Bool(a[1] # 0 \/ b[1] # 0) ELSE NaN

IsNull(a) == Bool(~IsFinite(a))

\* Con(cond, t, f): t where cond is non-zero, f where it is 0, NoData where
\* cond is NoData
Con(cond, t, f) == IF ~IsFinite(cond) THEN NaN ELSE IF cond[1] # 0 THEN t ELSE f

\* SetNull(cond, v): NoData where cond is non-zero or NoData, v elsewhere
SetNull(cond, v) == IF ~IsFinite(cond) \/ cond[1] # 0 THEN NaN ELSE v

\* Int(v): truncation towards zero
IntOf(v) ==
    IF ~IsFinite(v) THEN NaN
    ELSE IF v[1] >= 0 THEN R(v[1] \div v[2]) ELSE R(-((-v[1]) \div v[2]))

\* Float(v): the value as a floating-point cell
Float(v) == IF ~IsFinite(v) THEN NaN ELSE Rat(v[1], v[2])

\* accum_area = Times(flowacc_path, cell_area_m2), at one cell
AccumArea(flowacc, cell_area_m2) == Times(flowacc, cell_area_m2)

\* Con(GreaterThanEqual(accum_area, MICRO_THRESHOLD_M2), 1, 0)
MicroCell(accum_area) ==
    Con(GreaterThanEqual(accum_area, R(MICRO_THRESHOLD_M2)), R(1), R(0))

\* Con(GreaterThanEqual(accum_area, MAIN_THRESHOLD_M2), 1, 0)
MainCell(accum_area) ==
    Con(GreaterThanEqual(accum_area, R(MAIN_THRESHOLD_M2)), R(1), R(0))

\* SetNull(BooleanOr(LessThan(drop, 0.01), GreaterThan(drop, 100.0)), drop)
DropCleanCell(drop) ==
    SetNull(BooleanOr(LessThan(drop, DROP_MIN), GreaterThan(drop, R(DROP_MAX))), drop)

\* Float(Con(IsNull(drop_clean), 0, drop_clean))
DropCleanNoNullCell(drop_clean) == Float(Con(IsNull(drop_clean), R(0), drop_clean))

\* weighted = Times(accum_area, Divide(drop_clean_nonull, 100.0));
\* Con(GreaterThanEqual(weighted, SLOPE_WEIGHT_THRESHOLD), 1, 0)
SlopeContCell(accum_area, drop_clean_nonull) ==
    LET weighted == Times(accum_area, Divide(drop_clean_nonull, R(PERCENT)))
    IN  Con(GreaterThanEqual(weighted, R(SLOPE_WEIGHT_THRESHOLD)), R(1), R(0))

\* CombineCell asking for all three classes
CombineCellAll(main, micro, slope_cont) ==
    Con(GreaterThanEqual(Plus(Plus(IntOf(main), IntOf(micro)), IntOf(slope_cont)), R(3)),
        R(1), R(0))

\* sum12 = Plus(Int(main), Int(micro)); sum123 = Plus(sum12, Int(slope_cont));
\* Con(GreaterThanEqual(sum123, 2), 1, 0)
CombineCell(main, micro, slope_cont) ==
    LET sum12 == Plus(IntOf(main), IntOf(micro))
        sum123 == Plus(sum12, IntOf(slope_cont))
    IN  Con(GreaterThanEqual(sum123, R(VOTES_MIN)), R(1), R(0))

\* the flow accumulation (a count of cells) and the drop of the A1 manifest
FlowAccCellChoices ==
    {NaN} \cup {R(n) : n \in {0, 1500, 2499, 2500, 9999, 10000, 60000, 250000, 1000000}}

DropCellChoices ==
    {NaN, R(-1), R(0), <<1, 200>>, <<1, 100>>, R(1), R(5), R(100), R(101)}

CellAreaChoices == {R(1), <<1, 100>>}

\* the second cell of the row
NeighbourChoices ==
    { <<NaN, NaN>>, <<NaN, R(5)>>, <<R(10000), NaN>>, <<R(2500), R(100)>>,
      <<R(1500), R(100)>> }

ChannelsRun(flowacc, drop, cell_area_m2) ==
    [pc |-> "micro", flowacc |-> flowacc, drop |-> drop, cell_area_m2 |-> cell_area_m2,
     ras |-> EmptyFn]

Cells == 1..Len(ac.flowacc)

AccumAreaAt(i) == AccumArea(ac.flowacc[i], ac.cell_area_m2)

\* _save_raster(<expression>, path): the cells are written under the key
SaveCells(key, cells, next) ==
    ac' = [ac EXCEPT !.ras = @ @@ (key :> cells), !.pc = next]

\* line 163
SaveMicro ==
    /\ ac.pc = "micro"
    /\ SaveCells("micro", [i \in Cells |-> MicroCell(AccumAreaAt(i))], "main")
    /\ UNCHANGED <<pipeVars, sv, rq, zs>>

\* line 164
SaveMain ==
    /\ ac.pc = "main"
    /\ SaveCells("main", [i \in Cells |-> MainCell(AccumAreaAt(i))], "drop_clean")
    /\ UNCHANGED <<pipeVars, sv, rq, zs>>

\* lines 166-168
SaveDropClean ==
    /\ ac.pc = "drop_clean"
    /\ SaveCells("drop_clean", [i \in Cells |-> DropCleanCell(ac.drop[i])],
                 "drop_clean_nonull")
    /\ UNCHANGED <<pipeVars, sv, rq, zs>>

\* line 169
SaveDropCleanNoNull ==
    /\ ac.pc = "drop_clean_nonull"
    /\ SaveCells("drop_clean_nonull",
                 [i \in Cells |-> DropCleanNoNullCell(ac.ras["drop_clean"][i])],
                 "slope_cont")
    /\ UNCHANGED <<pipeVars, sv, rq, zs>>

\* lines 171-172
SaveSlopeCont ==
    /\ ac.pc = "slope_cont"
    /\ SaveCells("slope_cont",
                 [i \in Cells |-> SlopeContCell(AccumAreaAt(i),
                                                ac.ras["drop_clean_nonull"][i])],
                 "combine")
    /\ UNCHANGED <<pipeVars, sv, rq, zs>>

\* lines 174-176
SaveCombine ==
    /\ ac.pc = "combine"
    /\ SaveCells("combine",
                 [i \in Cells |-> CombineCell(ac.ras["main"][i], ac.ras["micro"][i],
                                              ac.ras["slope_cont"][i])],
                 "done")
    /\ UNCHANGED <<pipeVars, sv, rq, zs>>

InitChannels ==
    /\ now = 0 /\ nruns = 0 /\ faults = 0
    /\ dem \in {d \in DemChoices : IsBig(d)}
    /\ fs = EmptyFn
    /\ verified = [backoff |-> {}, once |-> {}]
    /\ manifests = EmptyFn /\ manRev = EmptyFn
    /\ lastOk = [s \in Stages |-> NoMan]
    /\ env = AmbientEnv
    /\ run = IdleRun
    /\ sv = IdleSave /\ rq = IdleRunoff /\ zs = IdleMasks
    /\ ac \in {ChannelsRun(<<fa, nb[1]>>, <<dr, nb[2]>>, ca) :
                 fa \in FlowAccCellChoices, dr \in DropCellChoices,
                 nb \in NeighbourChoices, ca \in CellAreaChoices}

NextChannels ==
    \/ SaveMicro \/ SaveMain \/ SaveDropClean \/ SaveDropCleanNoNull
    \/ SaveSlopeCont \/ SaveCombine

SpecChannels == InitChannels /\ [][NextChannels]_vars

-----------------------------------------------------------------------------
(* Properties of the stage runs (Spec) *)

\* the keys that name tables
TableKeys == {"zonal_tbl_streams", "zonal_tbl_slope"}

\* the keys that name rasters
IsRasterKey(k) == k \notin FeatureKeys /\ k \notin TableKeys

ManifestsOf(stage) == {m \in DOMAIN manifests : m[1] = stage}

\* C1: a run in which a step failed (an engine call raised out of the stage,
\* or a raster save did not materialize) writes no manifest; a run that
\* wrote its manifest did so as its last action, after every statement of
\* its body had ended without raising.
C1_FailedRunWritesNoManifest ==
    /\ run.cause # "none" => run.wrote = NoMan /\ run.status = "failed"
    /\ run.wrote # NoMan =>
         /\ run.status = "ok"
         /\ run.cause = "none"
         /\ {k \in run.lost : IsRasterKey(k)} = {}
         /\ run.pc = Len(Prog(run.stage)) + 1
         /\ run.calls = Len(Prog(run.stage))
         /\ run.wrote \in DOMAIN manifests

\* C1 witness: a run that had saved outputs failed at a later step, and
\* left no manifest
C1_Witness ==
    /\ run.status = "failed" /\ run.pc > 1
    /\ run.cause \in {"engine", "not-found"}
    /\ run.wrote = NoMan
    /\ ManifestsOf(run.stage) = {}

C3_ConsumesLatestManifest ==
    /\ (run.stage \in {"A2", "B1", "B2"} /\ run.cause # "no-manifest"
        /\ run.cause # "config") =>
         /\ run.up \in ManifestsOf(Prereq(run.stage))
         /\ \A m \in ManifestsOf(Prereq(run.stage)) : m = run.up \/ LexLess(m[2], run.up[2])
         /\ run.up = lastOk[Prereq(run.stage)]
    /\ run.cause = "no-manifest" =>
         /\ ManifestsOf(Prereq(run.stage)) = {}
         /\ run.status = "failed" /\ run.calls = 0
         /\ run.alloc = EmptyFn /\ run.wrote = NoMan

\* C3 witness: A1 has two manifests and an A2 run that consumed the later
\* one has completed
C3_Witness ==
    /\ Cardinality(ManifestsOf("A1")) >= 2
    /\ run.stage = "A2" /\ run.status = "ok"
    /\ run.up = lastOk["A1"]

\* C4 as stated: a manifest file, once written, is never written again
C4_ManifestWrittenOnce == \A m \in DOMAIN manRev : manRev[m] <= 1

\* C6 as stated: a failure of the pyramid/statistics build does not end the
\* stage
C6_PyramidFailureNotPropagated == ~(run.status = "failed" /\ run.cause = "pyramids")

\* C7 as stated: an _out_path path is in the CRF subfolder exactly when the
\* reference grid has at least SIZE_THRESHOLD_CELLS cells and USE_CRF_IF_BIG
\* is set, and a unique name otherwise; the paths a run allocates are
\* pairwise distinct and none existed when it was allocated
C7_UniquePathsNoneExisting ==
    /\ \A k \in DOMAIN run.alloc \cap OutPathKeys(run.stage) :
         run.alloc[k][1] = "crf" <=> (dem.w * dem.h >= 100000000 /\ USE_CRF_IF_BIG)
    /\ \A k \in DOMAIN run.alloc \ OutPathKeys(run.stage) : run.alloc[k][1] = "gdb"
    /\ \A j, k \in DOMAIN run.alloc : j # k => run.alloc[j] # run.alloc[k]
    /\ run.clash = {}

\* C7 amended: as C7, but only the unique names are new: a path in the CRF
\* subfolder is the fixed <base>.crf and exists already when an earlier run
\* created it
C7_UniquePathsCrfMayExist ==
    /\ \A k \in DOMAIN run.alloc \cap OutPathKeys(run.stage) :
         run.alloc[k][1] = "crf" <=> (dem.w * dem.h >= 100000000 /\ USE_CRF_IF_BIG)
    /\ \A k \in DOMAIN run.alloc \ OutPathKeys(run.stage) : run.alloc[k][1] = "gdb"
    /\ \A j, k \in DOMAIN run.alloc : j # k => run.alloc[j] # run.alloc[k]
    /\ \A k \in run.clash : run.alloc[k][1] = "crf"

\* C7 witness: a re-run was given a suffixed unique name because the bare
\* name existed
C7_Witness ==
    /\ run.status = "running"
    /\ \E k \in DOMAIN run.alloc : run.alloc[k][1] = "gdb" /\ run.alloc[k][3] >= 1

\* C8: a raster recorded in a manifest has been written exactly once: no
\* later run replaces it, in the workspace or in the CRF subfolder
C8_RecordedRasterNeverRewritten ==
    \A m \in DOMAIN manifests :
        \A k \in DOMAIN manifests[m].outputs :
            IsRasterKey(k) =>
                /\ Exists(fs, manifests[m].outputs[k])
                /\ fs[manifests[m].outputs[k]] = 1

\* C8 witness: in CRF mode a re-run of A1 allocated the recorded fill.crf
\* again and was refused
C8_Witness ==
    /\ run.stage = "A1" /\ run.crf
    /\ run.status = "failed" /\ run.cause = "refused"
    /\ \E m \in ManifestsOf("A1") : manifests[m].outputs["fill"] = run.alloc["fill"]

\* C9 as stated: the surface B1 hands to FlowDistance is the filled DEM, the
\* "fill" output of the A1 manifest the consumed A2 manifest names
C9_SurfaceIsFill ==
    (run.stage = "B1" /\ run.fd.stats # <<>>) =>
        run.fd.surface = manifests[manifests[run.up].up].outputs["fill"]

\* C26: B1 calls FlowDistance with WEIGHTED_MEAN first and with MEAN only if
\* that call raised; FlowDistance is attempted at most twice; when the second
\* attempt raises too the run fails there and writes no B1 manifest.
C26_FlowDistanceWeightedMeanThenMean ==
    run.stage = "B1" =>
        LET calls == run.fd.stats
            raised == run.fd.raised
        IN  /\ Len(calls) <= 2 /\ Len(raised) = Len(calls)
            /\ calls # <<>> =>
                 /\ calls[1] = "WEIGHTED_MEAN"
                 /\ Len(calls) = 2 <=> raised[1]
                 /\ Len(calls) = 2 => calls[2] = "MEAN"
                 /\ raised[Len(raised)] =>
                      /\ Len(calls) = 2
                      /\ run.status = "failed" /\ run.cause \in {"engine", "refused"}
                      /\ Prog("B1")[run.pc].op = "flowdist"
                      /\ run.wrote = NoMan
                 /\ ~raised[Len(raised)] =>
                      (run.status = "failed" => Prog("B1")[run.pc].op # "flowdist")

\* a B1 run whose two calls both raised and left no manifest
C26_Witness ==
    /\ run.stage = "B1" /\ run.status = "failed"
    /\ run.fd.stats = <<"WEIGHTED_MEAN", "MEAN">> /\ run.fd.raised = <<TRUE, TRUE>>
    /\ run.wrote = NoMan

\* C27: while the body of a `with _scoped_env(...)` block runs the settings
\* it names hold the block's values; once the block has ended, by reaching
\* its end or by an exception of a statement inside it, every setting the
\* block changed (parallelProcessingFactor in A1 included) has the value it
\* had before the block, and no other setting has changed.
C27_ScopedEnvRestored ==
    /\ run.status = "running" =>
          /\ run.saved = [k \in SavedKeys(run.stage) |-> AmbientEnv[k]]
          /\ \A k \in DOMAIN ScopedKwargs(run.stage) : env[k] = ScopedKwargs(run.stage)[k]
          /\ \A k \in DOMAIN env \ DOMAIN ScopedKwargs(run.stage) : env[k] = AmbientEnv[k]
    /\ (run.status \in {"ok", "failed"} /\ run.saved # EmptyFn) =>
          /\ \A k \in DOMAIN ScopedKwargs(run.stage) :
                k \in DOMAIN run.saved /\ env[k] = run.saved[k]
          /\ env = AmbientEnv
    /\ run.status # "running" => env = AmbientEnv

\* an A1 run has raised inside its block, after statements of the block had
\* run with the block's settings, and the ambient values are back
C27_Witness ==
    /\ run.stage = "A1" /\ run.status = "failed" /\ run.pc > 1
    /\ run.saved # EmptyFn
    /\ \A k \in DOMAIN ScopedKwargs("A1") : ScopedKwargs("A1")[k] # AmbientEnv[k]
    /\ env = AmbientEnv

\* the project home with key k taken out of the outputs of manifest m
WithoutKey(files, m, k) ==
    [files EXCEPT ![m].outputs = [j \in DOMAIN files[m].outputs \ {k} |-> files[m].outputs[j]]]

C28_LineageFromConsumedManifests ==
    (run.stage = "B1" /\ run.inp # EmptyFn) =>
        LET a2 == manifests[run.up]
        IN  /\ run.inp["flowdir"] = a2.inp["flowdir"]
            /\ run.inp["surface"] = a2.outputs["drop_clean_nonull"]
            /\ run.inp["streamlink"] = a2.outputs["streamlink"]
            /\ run.inp["watershed_ras"] = a2.outputs["watershed_ras"]
            /\ run.wrote # NoMan =>
                 /\ manifests[run.wrote].up = run.up
                 /\ manifests[run.wrote].outputs["watershed_ras"] = a2.outputs["watershed_ras"]
                 /\ manifests[run.wrote].inp["flowdir"] = a2.inp["flowdir"]

-----------------------------------------------------------------------------
(* Properties of _save_raster (SpecSave) *)

\* C5: once save() has written the raster, _save_raster sleeps at most
\* BACKOFF_TRIES times, the i-th wait being BACKOFF_BASE_SEC * 1.7^i and the
\* waits strictly increasing, stops sleeping at the first check that finds the
\* path, and raises if and only if the path still does not exist after the
\* last wait.
C5_SaveRaisesIffPathMissing ==
    (sv.pc = "done" /\ sv.saved) =>
        /\ Len(sv.slept) <= BACKOFF_TRIES
        /\ \A j \in 1..Len(sv.slept) : sv.slept[j] = BackoffWait(j - 1)
        /\ \A j \in 1..(Len(sv.slept) - 1) : sv.slept[j] < sv.slept[j + 1]
        /\ Len(sv.slept) = IF sv.d < BACKOFF_TRIES THEN sv.d ELSE BACKOFF_TRIES
        /\ (sv.result = "raised") <=> ~SvVisible(sv)

-----------------------------------------------------------------------------
(* Properties of _runoff_depth_from_rainfall (SpecRunoff) *)

\* C10: the value returned equals the reference law: Q = 0 when P <= 0 in both
\* modes; in CN mode S = max((25400/CN - 254)/1000, 0), Ia = ia_ratio*S, Q = 0
\* when P <= Ia or S <= 0, else Q = max((P - Ia)^2 / (P + (1 - ia_ratio)*S), 0);
\* in coefficient mode Q = max(coefficient*P, 0).  Where the law divides by
\* CN = 0 it has no value, and there the call raises.
C10_RunoffEqualsReferenceLaw ==
    rq.pc = "done" =>
        LET P == rq.P
            cnMode == rq.mode \in {"CN", "cn"}
            defined == ~(cnMode /\ rq.cn[1] = 0 /\ ~RatLeq(P, R(0)))
            S == RatMax(RatDiv(RatSub(RatDiv(R(25400), rq.cn), R(254)), R(1000)), R(0))
            Ia == RatMul(rq.ia, S)
            diff == RatSub(P, Ia)
            Q == IF RatLeq(P, R(0)) THEN R(0)
                 ELSE IF ~cnMode THEN RatMax(RatMul(rq.c, P), R(0))
                 ELSE IF RatLeq(P, Ia) \/ RatLeq(S, R(0)) THEN R(0)
                 ELSE RatMax(RatDiv(RatMul(diff, diff),
                                    RatAdd(P, RatMul(RatSub(R(1), rq.ia), S))), R(0))
        IN  IF defined THEN ~rq.q.raised /\ rq.q.value = Q
            ELSE rq.q.raised

\* a CN-mode call with 0 < P <= Ia (the abstraction absorbs all the rainfall)
\* has returned
C10_Witness ==
    /\ rq.pc = "done" /\ rq.mode = "CN" /\ rq.cn = R(30) /\ rq.ia = <<1, 5>>
    /\ rq.P = <<1, 10>>
    /\ rq.q = Returns(R(0))

\* C11: in curve-number mode with CN = 100 (so S = 0) the call returns Q = P
\* for every P > 0.
C11_Cn100RunoffEqualsRainfall ==
    (rq.pc = "done" /\ Upper(rq.mode) = "CN" /\ rq.cn = R(100) /\ ~RatLeq(rq.P, R(0)))
        => rq.q = Returns(rq.P)

-----------------------------------------------------------------------------
(* Properties of the B2 masks and of the stage-height solver (SpecMasks) *)

\* what the solver has returned for the scenarios so far, and what it holds
\* for the scenario in progress
SolverRuns ==
    {[P |-> zs.log[m].P, Qm |-> zs.log[m].Qm, zone_to_h |-> zs.log[m].zone_to_h,
      sol |-> zs.log[m].sol] : m \in DOMAIN zs.log}
    \cup (IF zs.pc \in {"zone", "bisect", "remap", "mask"}
          THEN {[P |-> zs.cfg.rain[zs.ri][2], Qm |-> zs.Qm,
                 zone_to_h |-> zs.zone_to_h, sol |-> zs.sol]}
          ELSE {})

\* the zone of the watershed raster that lies under cell i of the HAND raster
OwnZone(i) == ValueAt(zs.wshed, zs.hand.ox + i - 1, NODATA_INT)

\* C12: for a rainfall scenario of depth 0 every zone gets stage height exactly
\* 0 and the rainfall mask has no cell set to 1.
C12_ZeroRainfallFloodsNothing ==
    \A m \in DOMAIN zs.log :
        zs.log[m].P = R(0) =>
            /\ \A z \in DOMAIN zs.log[m].zone_to_h : HCmp(zs.log[m].zone_to_h[z], R(0)) = 0
            /\ \A i \in 1..zs.hand.width : zs.ras[m].cells[i] # 1

\* C13 (as claimed): a zone with a finite HAND cell whose volume at
\* max_stage_cap is below the target volume gets exactly max_stage_cap.
C13_CappedZoneGetsMaxStageCap ==
    \A r \in SolverRuns : \A z \in DOMAIN r.sol :
        r.sol[z].kind # "empty" =>
            LET hv == r.sol[z].hv
                V == RatMul(r.Qm, RatMul(R(Len(hv)), CellArea(zs.hand)))
            IN  VolumeAtCmp(hv, CellArea(zs.hand), HRat(zs.cfg.cap), V) < 0
                    => HCmp(r.zone_to_h[z], zs.cfg.cap) = 0

\* C13 (amended): such a zone gets exactly min(max_stage_cap, highest finite
\* HAND of the zone + 0.01), which never exceeds max_stage_cap.
C13_CappedZoneGetsBracketTop ==
    \A r \in SolverRuns : \A z \in DOMAIN r.sol :
        r.sol[z].kind # "empty" =>
            LET hv == r.sol[z].hv
                V == RatMul(r.Qm, RatMul(R(Len(hv)), CellArea(zs.hand)))
                top == RatMin(zs.cfg.cap, RatAdd(hv[Len(hv)], <<1, 100>>))
            IN  VolumeAtCmp(hv, CellArea(zs.hand), HRat(zs.cfg.cap), V) < 0
                    => /\ r.sol[z].kind = "capped"
                       /\ HCmp(r.zone_to_h[z], top) = 0
                       /\ HCmp(r.zone_to_h[z], zs.cfg.cap) <= 0

\* a capped zone whose height is below max_stage_cap, and one at max_stage_cap
C13_Witness ==
    /\ zs.pc = "done" /\ zs.status = "ok"
    /\ \E m \in DOMAIN zs.log : \E z \in DOMAIN zs.log[m].sol :
         /\ zs.log[m].sol[z].kind = "capped"
         /\ HCmp(zs.log[m].zone_to_h[z], zs.cfg.cap) < 0
    /\ \E m \in DOMAIN zs.log : \E z \in DOMAIN zs.log[m].sol :
         /\ zs.log[m].sol[z].kind = "capped"
         /\ HCmp(zs.log[m].zone_to_h[z], zs.cfg.cap) = 0

\* C14 (as claimed): every stage height in the zone-to-height map lies in
\* [0, max_stage_cap].
C14_HeightsWithinZeroAndCap ==
    \A r \in SolverRuns : \A z \in DOMAIN r.zone_to_h :
        /\ HCmp(r.zone_to_h[z], R(0)) >= 0
        /\ HCmp(r.zone_to_h[z], zs.cfg.cap) <= 0

\* C14 (amended): every stage height is at most max_stage_cap, and it is at
\* least 0 unless every finite HAND value of the zone is below -0.01.
C14_HeightsAtMostCap ==
    \A r \in SolverRuns : \A z \in DOMAIN r.zone_to_h :
        /\ HCmp(r.zone_to_h[z], zs.cfg.cap) <= 0
        /\ (r.sol[z].kind = "empty"
              \/ RatLeq(<<-1, 100>>, r.sol[z].hv[Len(r.sol[z].hv)]))
             => HCmp(r.zone_to_h[z], R(0)) >= 0

\* one scenario with a solved zone strictly inside the range, a capped zone
\* and a zone without finite cells
C14_Witness ==
    /\ \E r \in SolverRuns : \E z \in DOMAIN r.sol :
         /\ r.sol[z].kind = "solved"
         /\ HCmp(r.zone_to_h[z], R(0)) > 0 /\ HCmp(r.zone_to_h[z], zs.cfg.cap) < 0
    /\ \E r \in SolverRuns : \E z \in DOMAIN r.sol : r.sol[z].kind = "capped"
    /\ \E r \in SolverRuns : \E z \in DOMAIN r.sol : r.sol[z].kind = "empty"

\* C15 (as claimed): when the HAND and Watershed rasters differ in dimensions
\* the solver raises before any zone height and any raster, and the run leaves
\* no new output raster and no manifest.
C15_GridMismatchLeavesNoOutput ==
    (zs.hand.width # zs.wshed.width /\ zs.status = "failed") =>
        /\ zs.cause = "grid"
        /\ zs.zone_to_h = EmptyFn /\ zs.log = EmptyFn
        /\ zs.ras = EmptyFn /\ zs.fcs = EmptyFn
        /\ ~zs.manifest.written

\* C15 (amended): the solver raises before any zone height and before saving
\* any raster, and the run writes no rainfall mask and no manifest; the three
\* geometric masks and their polygons, written before the solver is entered,
\* remain.
C15_GridMismatchStopsBeforeSolving ==
    zs.hand.width # zs.wshed.width =>
        /\ zs.zone_to_h = EmptyFn /\ zs.log = EmptyFn /\ zs.masks_rain = <<>>
        /\ \A p \in DOMAIN zs.ras : p \in Range(zs.masks_geom)
        /\ ~zs.manifest.written
        /\ zs.pc \in {"geom", "geom_fc", "rain", "done"}
        /\ zs.pc = "done" =>
             /\ zs.status = "failed" /\ zs.cause = "grid"
             /\ DOMAIN zs.ras = Range(zs.masks_geom) /\ Len(zs.masks_geom) = Len(GEOM_SET)
             /\ DOMAIN zs.fcs = {<<"Flood10cm", "fc">>}

C15_Witness ==
    /\ zs.hand.width # zs.wshed.width
    /\ zs.pc = "done" /\ zs.cause = "grid"
    /\ Cardinality(DOMAIN zs.ras) = 3

\* C16: no zone height is computed unless the two rasters have identical
\* origin, cell width, cell height and dimensions.
C16_SolverRejectsAnyGeometryDifference ==
    (\E r \in SolverRuns : r.zone_to_h # EmptyFn) =>
        /\ zs.hand.ox = zs.wshed.ox
        /\ zs.hand.cw = zs.wshed.cw /\ zs.hand.ch = zs.wshed.ch
        /\ zs.hand.width = zs.wshed.width /\ zs.hand.height = zs.wshed.height

\* C17: a rainfall mask has 1 in a cell exactly when the cell's HAND value is
\* <= the stage height of the cell's own zone; the number of cells set equals
\* the number of such cells; a cell whose zone has no height is never 1.
C17_RainMaskIsHandBelowOwnZoneHeight ==
    \A m \in DOMAIN zs.log :
        LET h == zs.log[m].zone_to_h
            wet == {i \in 1..zs.hand.width :
                      /\ IsFinite(zs.hand.cells[i])
                      /\ OwnZone(i) \in DOMAIN h
                      /\ HCmp(h[OwnZone(i)], zs.hand.cells[i]) >= 0}
            set == {i \in 1..zs.hand.width : zs.ras[m].cells[i] = 1}
        IN  /\ set = wet
            /\ Cardinality(set) = Cardinality(wet)
            /\ \A i \in 1..zs.hand.width :
                 OwnZone(i) \notin DOMAIN h => zs.ras[m].cells[i] = NODATA_INT

\* a mask with a cell set to 1, a cell left 0 and a finite-HAND cell whose zone
\* has no height
C17_Witness ==
    \E m \in DOMAIN zs.log : \E i, j, k \in 1..zs.hand.width :
        /\ zs.ras[m].cells[i] = 1
        /\ zs.ras[m].cells[k] = 0
        /\ IsFinite(zs.hand.cells[j]) /\ OwnZone(j) \notin DOMAIN zs.log[m].zone_to_h
        /\ zs.ras[m].cells[j] = NODATA_INT

\* C18: each geometric mask is 1 where HAND <= its height, 0 where HAND is
\* above it and nodata where HAND is nodata; the polygons are made from the
\* mask of the largest height.
C18_GeomMaskAndFootprint ==
    /\ \A g \in 1..Len(zs.masks_geom) : \A i \in 1..zs.hand.width :
         LET v == zs.ras[zs.masks_geom[g]].cells[i]
             c == zs.hand.cells[i]
         IN  /\ zs.masks_geom[g] = <<"Flood", GEOM_SET[g][1]>>
             /\ ~IsFinite(c) => v = NODATA_INT
             /\ IsFinite(c) => v = IF RatLeq(c, GEOM_SET[g][2]) THEN 1 ELSE 0
    /\ <<"Flood10cm", "fc">> \in DOMAIN zs.fcs =>
         \E g \in 1..Len(GEOM_SET) :
            /\ \A o \in 1..Len(GEOM_SET) : RatLeq(GEOM_SET[o][2], GEOM_SET[g][2])
            /\ zs.fcs[<<"Flood10cm", "fc">>].of = zs.masks_geom[g]
            /\ zs.fcs[<<"Flood10cm", "fc">>].cells = zs.ras[zs.masks_geom[g]].cells

\* the polygons exist, made from a mask that has 1, 0 and nodata cells
C18_Witness ==
    /\ <<"Flood10cm", "fc">> \in DOMAIN zs.fcs
    /\ \E i, j, k \in 1..zs.hand.width :
         LET cells == zs.fcs[<<"Flood10cm", "fc">>].cells
         IN  cells[i] = 1 /\ cells[j] = 0 /\ cells[k] = NODATA_INT

\* C19: a zone is bisected exactly when volume_at(h_hi0) >= V_z; the height h
\* returned then has volume_at(h) >= V_z, the final lower bound is 0 or has
\* volume_at(lower bound) < V_z, and h - lower bound = h_hi0 / 2^40.
C19_BisectionBracketsMinimalHeight ==
    \A r \in SolverRuns : \A z \in DOMAIN r.sol :
        r.sol[z].kind # "empty" =>
            LET hv == r.sol[z].hv
                ca == CellArea(zs.hand)
                V == RatMul(r.Qm, RatMul(R(Len(hv)), ca))
                h0 == RatMin(zs.cfg.cap, RatAdd(hv[Len(hv)], <<1, 100>>))
                h == r.zone_to_h[z]
                lo == r.sol[z].h_lo
            IN  /\ r.sol[z].kind = "solved" <=> VolumeAtCmp(hv, ca, HRat(h0), V) >= 0
                /\ r.sol[z].kind = "solved" =>
                     /\ VolumeAtCmp(hv, ca, h, V) >= 0
                     /\ HCmp(lo, R(0)) = 0 \/ VolumeAtCmp(hv, ca, lo, V) < 0
                     /\ h.scale = h0 /\ lo.scale = h0
                     /\ Pad(h.frac, 41) = AddFrac(lo.frac, [i \in 1..41 |-> IF i = 41 THEN 1 ELSE 0])

\* a bisected zone whose final lower bound is above 0, and one whose final
\* lower bound is 0
C19_Witness ==
    /\ \E r \in SolverRuns : \E z \in DOMAIN r.sol :
         r.sol[z].kind = "solved" /\ HCmp(r.sol[z].h_lo, R(0)) > 0
    /\ \E r \in SolverRuns : \E z \in DOMAIN r.sol :
         r.sol[z].kind = "solved" /\ HCmp(r.sol[z].h_lo, R(0)) = 0

\* the single zone of HAND values [0.0, 0.1, 0.2, 0.3], cell area 1.0, with
\* Qm = 0.0375 (target volume 0.15) and the cap at 1.0, has been solved
SyntheticZoneSolved(r) ==
    /\ zs.hand.cells = <<R(0), <<1, 10>>, <<1, 5>>, <<3, 10>>>>
    /\ zs.wshed.cells = <<0, 0, 0, 0>>
    /\ CellArea(zs.hand) = R(1) /\ zs.cfg.cap = R(1)
    /\ r.Qm = <<3, 80>>
    /\ 0 \in DOMAIN r.zone_to_h

\* C20 (as claimed): for that zone the solver converges to within 1e-3 of 0.2.
C20_SyntheticZoneNearPointTwo ==
    \A r \in SolverRuns :
        SyntheticZoneSolved(r) =>
            /\ HCmp(r.zone_to_h[0], <<199, 1000>>) >= 0
            /\ HCmp(r.zone_to_h[0], <<201, 1000>>) <= 0

\* C20 (amended): for that zone the solver converges to within 1e-3 of 0.125,
\* the height at which 2h - 0.1 = 0.15.
C20_SyntheticZoneNearOneEighth ==
    \A r \in SolverRuns :
        SyntheticZoneSolved(r) =>
            /\ r.sol[0].kind = "solved"
            /\ HCmp(r.zone_to_h[0], <<124, 1000>>) >= 0
            /\ HCmp(r.zone_to_h[0], <<126, 1000>>) <= 0

C20_Witness ==
    \E r \in SolverRuns : SyntheticZoneSolved(r) /\ r.sol[0].kind = "solved"

\* cell_area * the sum over the cells with HAND <= h of (h - HAND), cell i on
RECURSIVE WetVolumeFrom(_, _, _, _)
WetVolumeFrom(hv, cell_area, h, i) ==
    IF i > Len(hv) THEN R(0)
    ELSE RatAdd(IF RatLeq(hv[i], h) THEN RatMul(cell_area, RatSub(h, hv[i])) ELSE R(0),
                WetVolumeFrom(hv, cell_area, h, i + 1))

\* heights at, just below and just above every cell of the zone, and heights
\* below and above all of them
ProbeHeights(hv) ==
    {hv[i] : i \in 1..Len(hv)}
    \cup {RatSub(hv[i], <<1, 100>>) : i \in 1..Len(hv)}
    \cup {RatAdd(hv[i], <<1, 100>>) : i \in 1..Len(hv)}
    \cup {R(-2), R(0), R(3)}

\* the zones of the scenario just solved that have finite HAND cells
SolvedZones == {z \in DOMAIN zs.sol : zs.sol[z].kind # "empty"}

\* C21: for the sorted finite HAND values of a zone (duplicates and negative
\* values included) volume_at(h) equals cell_area * the sum over the cells
\* with HAND <= h of (h - HAND), and h1 < h2 implies
\* volume_at(h1) <= volume_at(h2).
C21_VolumeAtMonotoneClosedForm ==
    zs.pc = "remap" =>
        \A z \in SolvedZones :
            LET hv == zs.sol[z].hv
                ca == CellArea(zs.hand)
                H == ProbeHeights(hv) \cup {zs.sol[z].h0}
            IN  /\ \A i \in 1..(Len(hv) - 1) : RatLeq(hv[i], hv[i + 1])
                /\ \A h \in H :
                     /\ RatLeq(VolumeAt(hv, ca, h), WetVolumeFrom(hv, ca, h, 1))
                     /\ RatLeq(WetVolumeFrom(hv, ca, h, 1), VolumeAt(hv, ca, h))
                /\ \A h1, h2 \in H :
                     RatLess(h1, h2) => RatLeq(VolumeAt(hv, ca, h1), VolumeAt(hv, ca, h2))

\* a zone with a duplicated value and a negative value, for which volume_at
\* is 0 at one height, positive at a negative height, and grows between two
\* heights in the zone's range
C21_Witness ==
    /\ zs.pc = "remap"
    /\ \E z \in SolvedZones :
         LET hv == zs.sol[z].hv
             ca == CellArea(zs.hand)
         IN  /\ \E i \in 1..(Len(hv) - 1) : hv[i] = hv[i + 1]
             /\ RatLess(hv[1], R(0)) /\ RatLess(R(0), hv[Len(hv)])
             /\ VolumeAt(hv, ca, R(-2)) = R(0)
             /\ \E h \in ProbeHeights(hv) : RatLess(h, R(0)) /\ RatLess(R(0), VolumeAt(hv, ca, h))
             /\ \E h1, h2 \in ProbeHeights(hv) :
                  /\ RatLess(h1, h2)
                  /\ RatLess(R(0), VolumeAt(hv, ca, h1))
                  /\ RatLess(VolumeAt(hv, ca, h1), VolumeAt(hv, ca, h2))

\* the scenarios for which the solver has gone through all the zones
SolverReturns == {r \in SolverRuns : r.P \in {zs.log[m].P : m \in DOMAIN zs.log}}
    \cup (IF zs.pc \in {"remap", "mask"} THEN {r \in SolverRuns : r.sol = zs.sol} ELSE {})

\* the ids >= 0 in the watershed array
ZoneIds == {zs.wshed.cells[j] : j \in 1..zs.wshed.width} \cap Nat

\* the cells of the HAND array that the solver pairs with zone z
ZoneCells(z) == {i \in 1..zs.hand.width : i <= zs.wshed.width /\ zs.wshed.cells[i] = z}

\* C22: a zone all of whose cells have non-finite HAND gets stage height
\* exactly 0 and the solver does not raise for it; when the solver returns,
\* every zone id >= 0 of the watershed raster has an entry, the zones next
\* to an empty zone included.
C22_EmptyZoneGetsZeroAndAllZonesEntered ==
    /\ zs.status = "failed" =>
          /\ zs.cause \in {"grid", "no-zones"}
          /\ zs.cause = "no-zones" => ZoneIds = {}
          /\ zs.cause = "grid" => ~SameGrid(zs.hand, zs.wshed)
    /\ \A r \in SolverRuns : \A z \in DOMAIN r.zone_to_h :
          (\A i \in ZoneCells(z) : ~IsFinite(zs.hand.cells[i]))
              => (r.sol[z].kind = "empty" /\ r.zone_to_h[z] = HRat(R(0))
                  /\ HCmp(r.zone_to_h[z], R(0)) = 0)
    /\ \A r \in SolverReturns : DOMAIN r.zone_to_h = ZoneIds

\* the solver has returned for a watershed raster whose lowest zone id has no
\* finite HAND cell and whose next zone has been bisected
C22_Witness ==
    \E r \in SolverReturns : \E z1, z2 \in DOMAIN r.zone_to_h :
        /\ z1 < z2
        /\ r.sol[z1].kind = "empty" /\ r.sol[z2].kind = "solved"
        /\ HCmp(r.zone_to_h[z1], R(0)) = 0 /\ HCmp(r.zone_to_h[z2], R(0)) > 0

\* the loop of lines 176-179 from pass `it` on, as a function of its variables
RECURSIVE BisectFrom(_, _, _, _, _, _)
BisectFrom(hv, cell_area, V, h_lo, h_hi, it) ==
    IF it >= BISECT_ITERS THEN h_hi
    ELSE LET h_mid == Mid(h_lo, h_hi)
         IN  IF VolumeAtCmp(hv, cell_area, h_mid, V) < 0
             THEN BisectFrom(hv, cell_area, V, h_mid, h_hi, it + 1)
             ELSE BisectFrom(hv, cell_area, V, h_lo, h_mid, it + 1)

\* the body of the loop over the zones (lines 158-180) as a function of the
\* zone's own sorted finite HAND values, the cell area, the runoff depth and
\* the cap
ZoneHeight(hv, cell_area, Qm, max_stage_cap_m) ==
    IF hv = <<>> THEN HRat(R(0))
    ELSE LET V == VTarget(hv, cell_area, Qm)
             h0 == HHi0(hv, max_stage_cap_m)
         IN  IF RatSub(VolumeAt(hv, cell_area, h0), V)[1] < 0 THEN HRat(h0)
             ELSE BisectFrom(hv, cell_area, V, [scale |-> h0, frac |-> <<0>>], HRat(h0), 0)

\* the finite HAND values of the cells of zone z, sorted
OwnValues(z) ==
    LET idx == SortedSeqOf(ZoneCells(z))
    IN  SortSeq(SelectSeq([k \in 1..Len(idx) |-> zs.hand.cells[idx[k]]], IsFinite), RatLess)

\* C23: the stage height of a zone is a function of the zone's own HAND cells,
\* the cell area, the runoff depth and the cap alone: whatever the other zones
\* hold and whatever was processed before it, the zone gets
\* ZoneHeight(own values, cell area, Qm, cap).
C23_ZoneHeightDependsOnOwnCellsOnly ==
    zs.pc = "remap" =>
        \A z \in DOMAIN zs.zone_to_h :
            zs.zone_to_h[z] = ZoneHeight(OwnValues(z), CellArea(zs.hand), zs.Qm, zs.cfg.cap)

\* two zones with finite cells have been solved in one run to different
\* heights, the second one after a bisection of the first
C23_Witness ==
    /\ zs.pc = "remap"
    /\ \E z1, z2 \in DOMAIN zs.zone_to_h :
         /\ z1 < z2
         /\ zs.sol[z1].kind = "solved" /\ zs.sol[z2].kind = "solved"
         /\ OwnValues(z1) # OwnValues(z2)
         /\ zs.zone_to_h[z1] # zs.zone_to_h[z2]
         /\ HCmp(zs.zone_to_h[z2], R(0)) > 0

\* the sign of x - y, by the continued fractions of x and y (no products)
RECURSIVE RatCmp(_, _)
RatCmp(x, y) ==
    LET qx == x[1] \div x[2]
        qy == y[1] \div y[2]
        rx == x[1] % x[2]
        ry == y[1] % y[2]
    IN  IF qx # qy THEN (IF qx > qy THEN 1 ELSE -1)
        ELSE IF rx = 0 \/ ry = 0 THEN Sign(rx - ry)
        ELSE RatCmp(<<y[2], ry>>, <<x[2], rx>>)

\* the sign of h1 - h2 for two heights on the same scale
SameScaleCmp(h1, h2) ==
    LET n == IF Len(h1.frac) > Len(h2.frac) THEN Len(h1.frac) ELSE Len(h2.frac)
        a == Pad(h1.frac, n)
        b == Pad(h2.frac, n)
    IN  IF a = b THEN 0
        ELSE LET i == CHOOSE k \in 1..n : a[k] # b[k] /\ \A j \in 1..(k - 1) : a[j] = b[j]
             IN  Sign(h1.scale[1]) * (IF a[i] > b[i] THEN 1 ELSE -1)

\* the cells a mask has set to 1
CellsSet(m) == {i \in 1..zs.hand.width : zs.ras[m].cells[i] = 1}

\* the rainfall masks are nested by rainfall depth, and the polygons are made
\* from the mask of the third scenario, which has the largest depth and
\* holds every cell any rainfall mask has set
RainMasksNested ==
    /\ \A m1, m2 \in DOMAIN zs.log :
          RatLeq(zs.log[m1].P, zs.log[m2].P) => CellsSet(m1) \subseteq CellsSet(m2)
    /\ <<"Flood10cmRain", "fc">> \in DOMAIN zs.fcs =>
          LET fc == zs.fcs[<<"Flood10cmRain", "fc">>]
          IN  /\ fc.of = <<"Flood", zs.cfg.rain[3][1]>>
              /\ fc.cells = zs.ras[fc.of].cells
              /\ \A m \in DOMAIN zs.log :
                    /\ RatLeq(zs.log[m].P, zs.log[fc.of].P)
                    /\ CellsSet(m) \subseteq {i \in 1..zs.hand.width : fc.cells[i] = 1}

\* C29 (as claimed): within a run (one HAND/watershed input, one set of runoff
\* parameters) every zone's stage height is non-decreasing in the rainfall
\* depth, the rainfall masks are nested, and the polygonized third scenario
\* is the most inclusive.
C29_HeightsAndMasksGrowWithRainfall ==
    /\ \A m1, m2 \in DOMAIN zs.log :
          RatLeq(zs.log[m1].P, zs.log[m2].P) =>
              \A z \in DOMAIN zs.log[m1].zone_to_h :
                  /\ RatCmp(zs.log[m1].Qm, zs.log[m2].Qm) <= 0
                  /\ zs.log[m1].zone_to_h[z].scale = zs.log[m2].zone_to_h[z].scale
                  /\ SameScaleCmp(zs.log[m1].zone_to_h[z], zs.log[m2].zone_to_h[z]) <= 0
    /\ RainMasksNested

\* C29 (amended): the same for every zone that has no finite HAND cell or
\* whose highest finite HAND value is >= -0.01; the masks are nested and the
\* third scenario is the most inclusive for every zone.
C29_NonNegativeZoneHeightsGrowWithRainfall ==
    /\ \A m1, m2 \in DOMAIN zs.log :
          RatLeq(zs.log[m1].P, zs.log[m2].P) =>
              \A z \in DOMAIN zs.log[m1].zone_to_h :
                  /\ RatCmp(zs.log[m1].Qm, zs.log[m2].Qm) <= 0
                  /\ zs.log[m1].zone_to_h[z].scale = zs.log[m2].zone_to_h[z].scale
                  /\ (OwnValues(z) = <<>>
                        \/ RatLeq(<<-1, 100>>, OwnValues(z)[Len(OwnValues(z))]))
                       => SameScaleCmp(zs.log[m1].zone_to_h[z], zs.log[m2].zone_to_h[z]) <= 0
    /\ RainMasksNested

\* the three scenarios are done and polygonized; a zone's height has grown
\* from the first to the second and from the second to the third, and each
\* mask has a cell the one before it has not
C29_Witness ==
    /\ <<"Flood10cmRain", "fc">> \in DOMAIN zs.fcs
    /\ LET m1 == <<"Flood", zs.cfg.rain[1][1]>>
           m2 == <<"Flood", zs.cfg.rain[2][1]>>
           m3 == <<"Flood", zs.cfg.rain[3][1]>>
       IN  /\ \E z \in DOMAIN zs.log[m1].zone_to_h :
                /\ SameScaleCmp(zs.log[m1].zone_to_h[z], zs.log[m2].zone_to_h[z]) < 0
                /\ SameScaleCmp(zs.log[m2].zone_to_h[z], zs.log[m3].zone_to_h[z]) < 0
           /\ CellsSet(m1) # CellsSet(m2) /\ CellsSet(m2) # CellsSet(m3)

-----------------------------------------------------------------------------
(* Properties of the channel classes of A2 (SpecChannels) *)

\* the three binary classes
ClassKeys == {"micro", "main", "slope_cont"}

\* the number of classes that are 1 at cell i
Votes(i) == Cardinality({k \in ClassKeys : ac.ras[k][i] = R(1)})

\* C24: where the three classes have data, the combined raster is 1 exactly
\* when at least two of them are 1 and 0 when fewer than two are; a cell with
\* exactly two classes set is 1.  The three classes have data at the same
\* cells, and the combined raster is NoData where they are.
C24_CombinedIsTwoOfThree ==
    ac.pc = "done" =>
        \A i \in Cells :
            LET c == ac.ras["combine"][i]
                nodata == {k \in ClassKeys : ~IsFinite(ac.ras[k][i])}
            IN  /\ \A k \in ClassKeys : ac.ras[k][i] \in {R(0), R(1), NaN}
                /\ nodata = {} \/ nodata = ClassKeys
                /\ nodata = ClassKeys => c = NaN
                /\ nodata = {} =>
                     /\ c \in {R(0), R(1)}
                     /\ c = R(1) <=> Votes(i) >= 2
                     /\ c = R(0) <=> Votes(i) < 2
                     /\ Votes(i) = 2 => c = R(1)

\* a cell with exactly two classes set that is 1 and a cell with exactly one
\* class set that is 0
C24_Witness ==
    /\ ac.pc = "done"
    /\ \E i, j \in Cells :
         /\ Votes(i) = 2 /\ ac.ras["combine"][i] = R(1)
         /\ Votes(j) = 1 /\ ac.ras["combine"][j] = R(0)

\* C30: with the configured thresholds (MAIN_THRESHOLD_M2 >= MICRO_THRESHOLD_M2)
\* every main-channel cell is a micro-drainage cell and is in the combined
\* network; the combined network is main OR (micro AND slope-weighted), so the
\* slope-weighted class alone never adds a cell; the cleaned drop that feeds
\* the slope-weighted class is 0 or lies in [0.01, 100] at every cell.
C30_CombinedIsMainOrMicroAndSlope ==
    /\ ac.pc = "done" =>
          \A i \in Cells :
              LET main == ac.ras["main"][i] = R(1)
                  micro == ac.ras["micro"][i] = R(1)
                  slope == ac.ras["slope_cont"][i] = R(1)
                  comb == ac.ras["combine"][i] = R(1)
              IN  /\ main => micro
                  /\ main => comb
                  /\ comb <=> (main \/ (micro /\ slope))
                  /\ (slope /\ ~micro) => ~comb
    /\ "drop_clean_nonull" \in DOMAIN ac.ras =>
          \A i \in Cells :
              LET d == ac.ras["drop_clean_nonull"][i]
              IN  /\ IsFinite(d)
                  /\ d = R(0) \/ (RatLeq(<<1, 100>>, d) /\ RatLeq(d, R(100)))

\* a main-channel cell without the slope class that is in the network, a cell
\* with the slope class alone that is not, a drop outside [0.01, 100] cleaned
\* to 0 and a drop inside it kept
C30_Witness ==
    /\ ac.pc = "done"
    /\ \E i, j \in Cells :
         /\ ac.ras["main"][i] = R(1) /\ ac.ras["slope_cont"][i] = R(0)
         /\ ac.ras["combine"][i] = R(1)
         /\ ac.ras["slope_cont"][j] = R(1) /\ ac.ras["micro"][j] = R(0)
         /\ ac.ras["combine"][j] = R(0)
    /\ \E i, j \in Cells :
         /\ ac.drop[i] = R(101) /\ ac.ras["drop_clean_nonull"][i] = R(0)
         /\ ac.drop[j] = R(100) /\ ac.ras["drop_clean_nonull"][j] = R(100)

====
